---- MODULE Spec2Model ----
(***************************************************************************)
(* A model of the GDB/MI front end: the state reducer                      *)
(* (state/debugger_state.rs), the MI line parser (gdb/parser.rs), the      *)
(* command encoder (gdb/writer.rs) and the process supervisor              *)
(* (gdb/process.rs).                                                       *)
(*                                                                         *)
(* Rust strings are sequences of one-character strings; Option<T> is a     *)
(* sequence of length at most one; Vec<T> is a sequence; an enum value is  *)
(* a record with a tag field.                                              *)
(***************************************************************************)
EXTENDS Integers, Sequences, FiniteSets, TLC

VARIABLES
    state,      \* App::state, the DebuggerState (ui/app.rs)
    prev,       \* history: the DebuggerState before the last apply
    last,       \* history: the StateEvent of the last apply, NoEvent at start
    lastLine,   \* history: the MI line the last event was decoded from, if any
    cmd_q,      \* the command channel cmd_tx -> cmd_rx (process.rs)
    sent,       \* history: every command sent on the command channel, in order
    seq,        \* GdbWriter::seq
    stdin,      \* the lines written to the subprocess's standard input
    gdb_out,    \* what the subprocess has still to emit on its standard output
    line_q,     \* the line channel line_tx -> line_rx
    events,     \* the event channel: every event sent while the receiver lived
    taken,      \* history: the lines the control loop took from line_q
    ui,         \* "open" while the consumer holds event_rx, else "dropped"
    child,      \* the subprocess: "none", "alive", "exited", "killed"
    loop_pc,    \* run_loop's position
    reader_pc,  \* the reader thread's position
    in_token,   \* the digit string in front of the line given to the decoder
    in_record,  \* the rest of the line given to the decoder
    stripped,   \* strip_token's results: of the line, then of its own result
    parsed      \* parse_line's result for the line, once it was computed

reducerVars == <<state, prev, last, lastLine>>
procVars == <<cmd_q, sent, seq, stdin, gdb_out, line_q, events, taken, ui,
              child, loop_pc, reader_pc>>
decoderVars == <<in_token, in_record, stripped, parsed>>
vars == <<state, prev, last, lastLine, cmd_q, sent, seq, stdin, gdb_out,
          line_q, events, taken, ui, child, loop_pc, reader_pc, in_token,
          in_record, stripped, parsed>>

\* ------------------------------------------------------------------------
\* Option<T>

None == <<>>

Some(x) == <<x>>

\* ------------------------------------------------------------------------
\* Bounds and input domains

\* the longest breakpoint list the bounded model builds
MaxBps == 2

FileA == <<"a", ".", "c">>

ExeA == <<"a", ".", "o", "u", "t">>

ExeB == <<"b">>

BpIds == {1, 2}

BpLines == {10, 20}

Breakpoints == [id : BpIds, file : {FileA}, line : BpLines, enabled : BOOLEAN]

VarX == [name |-> <<"x">>, value |-> <<"1">>, type_ |-> <<"i", "n", "t">>]

FrameMain ==
    [addr |-> 16, function |-> <<"m", "a", "i", "n">>, file |-> Some(FileA),
     line |-> Some(10)]

FrameF == [addr |-> 32, function |-> <<"f">>, file |-> None, line |-> None]

PauseStates ==
    { [thread_id |-> 1, frame |-> FrameMain, stack |-> <<FrameMain>>,
       stop_reason |-> [tag |-> "BreakpointHit", id |-> 1]],
      [thread_id |-> 2, frame |-> FrameF, stack |-> <<FrameF>>,
       stop_reason |-> [tag |-> "EndStepping"]] }

ExitCodes == {None, Some(0)}

LocalsValues == {<<>>, <<VarX>>}

\* ------------------------------------------------------------------------
\* state/debugger_state.rs

NoProgramLoaded == [tag |-> "NoProgramLoaded"]

ProgramLoadedState == [tag |-> "ProgramLoaded"]

Running == [tag |-> "Running"]

Paused == [tag |-> "Paused"]

Exited(code) == [tag |-> "Exited", code |-> code]

ProgramLoaded(executable) == [type |-> "ProgramLoaded", executable |-> executable]

ProgramStarted == [type |-> "ProgramStarted"]

ProgramPaused(pause) == [type |-> "ProgramPaused", pause |-> pause]

ProgramExited(code) == [type |-> "ProgramExited", code |-> code]

BreakpointAdded(breakpoint) == [type |-> "BreakpointAdded", breakpoint |-> breakpoint]

BreakpointRemoved(id) == [type |-> "BreakpointRemoved", id |-> id]

BreakpointToggled(id, enabled) ==
    [type |-> "BreakpointToggled", id |-> id, enabled |-> enabled]

LocalsUpdated(vars_) == [type |-> "LocalsUpdated", vars |-> vars_]

NoEvent == [type |-> "none"]

StateEvents ==
    {ProgramLoaded(e) : e \in {ExeA, ExeB}}
    \cup {ProgramStarted}
    \cup {ProgramPaused(p) : p \in PauseStates}
    \cup {ProgramExited(c) : c \in ExitCodes}
    \cup {BreakpointAdded(b) : b \in Breakpoints}
    \cup {BreakpointRemoved(i) : i \in BpIds}
    \cup {BreakpointToggled(i, en) : i \in BpIds, en \in BOOLEAN}
    \cup {LocalsUpdated(v) : v \in LocalsValues}

\* DebuggerState::new
new ==
    [program |-> NoProgramLoaded,
     pause |-> None,
     locals |-> <<>>,
     persistent |-> [executable |-> None, breakpoints |-> <<>>]]

\* Vec::retain(|b| b.id != id): keeps, in order, the elements with another id
RECURSIVE retain(_, _)
retain(bps, id) ==
    IF bps = <<>> THEN <<>>
    ELSE IF Head(bps).id # id
         THEN <<Head(bps)>> \o retain(Tail(bps), id)
         ELSE retain(Tail(bps), id)

\* iter_mut().find(|b| b.id == id): the index of the first element with the
\* id, 0 when there is none
RECURSIVE find_id(_, _, _)
find_id(bps, id, i) ==
    IF i > Len(bps) THEN 0
    ELSE IF bps[i].id = id THEN i
    ELSE find_id(bps, id, i + 1)

toggle_first_entry(bps, id, enabled) ==
    LET i == find_id(bps, id, 1)
    IN IF i = 0 THEN bps ELSE [bps EXCEPT ![1].enabled = enabled]

\* the body of the BreakpointToggled arm of apply
toggle(bps, id, enabled) ==
    LET i == find_id(bps, id, 1)
    IN IF i = 0 THEN bps ELSE [bps EXCEPT ![i].enabled = enabled]

\* the ProgramLoaded arm of apply
apply_loaded(s, executable) ==
    [s EXCEPT !.program = ProgramLoadedState,
              !.persistent.executable = Some(executable),
              !.pause = None,
              !.locals = <<>>]

apply_started_keeps_pause(s) ==
    [s EXCEPT !.program = Running, !.locals = <<>>]

apply_started_unless_exited(s) ==
    IF s.program.tag = "Exited" THEN s
    ELSE [s EXCEPT !.program = Running, !.pause = None, !.locals = <<>>]

\* the ProgramStarted arm of apply
apply_started(s) ==
    [s EXCEPT !.program = Running, !.pause = None, !.locals = <<>>]

apply_paused_keeps_first(s, pause) ==
    [s EXCEPT !.program = Paused,
              !.pause = IF s.pause = None THEN Some(pause) ELSE s.pause]

apply_paused_only_when_run(s, pause) ==
    IF s.program.tag \in {"Running", "Paused"}
    THEN [s EXCEPT !.program = Paused, !.pause = Some(pause)]
    ELSE s

\* the ProgramPaused arm of apply
apply_paused(s, pause) ==
    [s EXCEPT !.program = Paused, !.pause = Some(pause)]

apply_exited_resets(s, code) ==
    [s EXCEPT !.program = Exited(code),
              !.pause = None,
              !.locals = <<>>,
              !.persistent.breakpoints = <<>>]

\* the ProgramExited arm of apply
apply_exited(s, code) ==
    [s EXCEPT !.program = Exited(code), !.pause = None, !.locals = <<>>]

apply_added_clears_locals(s, breakpoint) ==
    [s EXCEPT !.persistent.breakpoints = Append(@, breakpoint),
              !.locals = <<>>]

\* the BreakpointAdded arm of apply
apply_added(s, breakpoint) ==
    [s EXCEPT !.persistent.breakpoints = Append(@, breakpoint)]

\* a BreakpointRemoved arm that removes the first entry with the id only
apply_removed_first_only(s, id) ==
    LET bps == s.persistent.breakpoints
        hits == {i \in 1..Len(bps) : bps[i].id = id}
        k == CHOOSE i \in hits : \A j \in hits : i <= j
    IN IF hits = {} THEN s
       ELSE [s EXCEPT !.persistent.breakpoints =
                          SubSeq(bps, 1, k - 1) \o SubSeq(bps, k + 1, Len(bps))]

\* the BreakpointRemoved arm of apply
apply_removed(s, id) ==
    [s EXCEPT !.persistent.breakpoints = retain(@, id)]

\* the BreakpointToggled arm of apply
apply_toggled(s, id, enabled) ==
    [s EXCEPT !.persistent.breakpoints = toggle(@, id, enabled)]

\* the LocalsUpdated arm of apply
apply_locals(s, vars_) == [s EXCEPT !.locals = vars_]

\* DebuggerState::apply
apply(s, event) ==
    CASE event.type = "ProgramLoaded" -> apply_loaded(s, event.executable)
      [] event.type = "ProgramStarted" -> apply_started(s)
      [] event.type = "ProgramPaused" -> apply_paused(s, event.pause)
      [] event.type = "ProgramExited" -> apply_exited(s, event.code)
      [] event.type = "BreakpointAdded" -> apply_added(s, event.breakpoint)
      [] event.type = "BreakpointRemoved" -> apply_removed(s, event.id)
      [] event.type = "BreakpointToggled" ->
           apply_toggled(s, event.id, event.enabled)
      [] event.type = "LocalsUpdated" -> apply_locals(s, event.vars)

\* ------------------------------------------------------------------------
\* Rust string primitives (offsets are 0-based, as in the source)

\* &s[a..b]
Slice(s, a, b) == SubSeq(s, a + 1, b)

\* &s[a..]
From(s, a) == SubSeq(s, a + 1, Len(s))

\* &s[..b]
Upto(s, b) == SubSeq(s, 1, b)

Digits == <<"0", "1", "2", "3", "4", "5", "6", "7", "8", "9">>

\* char::is_ascii_digit
is_ascii_digit(c) == \E d \in 1..10 : Digits[d] = c

DigitValue(c) == (CHOOSE d \in 1..10 : Digits[d] = c) - 1

HexLower == <<"a", "b", "c", "d", "e", "f">>

HexUpper == <<"A", "B", "C", "D", "E", "F">>

\* char::to_digit(16)
is_hex_digit(c) ==
    \/ is_ascii_digit(c)
    \/ \E d \in 1..6 : HexLower[d] = c \/ HexUpper[d] = c

HexValue(c) ==
    IF is_ascii_digit(c) THEN DigitValue(c)
    ELSE 9 + (CHOOSE d \in 1..6 : HexLower[d] = c \/ HexUpper[d] = c)

Max(offsets) == CHOOSE x \in offsets : \A y \in offsets : x >= y

\* the least element of a non-empty set of offsets
Min(offsets) == CHOOSE x \in offsets : \A y \in offsets : x <= y

\* str::find(&str): the offset of the first occurrence
str_find(s, needle) ==
    LET hits == {i \in 0..(Len(s) - Len(needle)) :
                     Slice(s, i, i + Len(needle)) = needle}
    IN IF hits = {} THEN None ELSE Some(Min(hits))

\* str::contains(&str)
contains(s, needle) == str_find(s, needle) # None

RECURSIVE digits_value(_, _, _)
digits_value(s, base, acc) ==
    IF s = <<>> THEN acc
    ELSE digits_value(Tail(s), base,
                      acc * base
                      + (IF base = 16 THEN HexValue(Head(s))
                         ELSE DigitValue(Head(s))))

RECURSIVE strip_zeros(_)
strip_zeros(s) ==
    IF Len(s) > 1 /\ Head(s) = "0" THEN strip_zeros(Tail(s)) ELSE s

\* a < b for two digit strings of the same length
RECURSIVE digits_less(_, _)
digits_less(a, b) ==
    IF a = <<>> THEN FALSE
    ELSE IF Head(a) # Head(b) THEN DigitValue(Head(a)) < DigitValue(Head(b))
    ELSE digits_less(Tail(a), Tail(b))

\* u32::MAX, 4294967295, in decimal digits
U32MaxDigits == <<"4", "2", "9", "4", "9", "6", "7", "2", "9", "5">>

\* <u32 as FromStr>::from_str followed by .ok(): an optional '+', then one
\* or more decimal digits, and a value that fits 32 bits
parse_u32(s) ==
    LET body == IF s # <<>> /\ Head(s) = "+" THEN Tail(s) ELSE s
        sig == strip_zeros(body)
    IN IF body = <<>> THEN None
       ELSE IF \E i \in 1..Len(body) : ~is_ascii_digit(body[i]) THEN None
       ELSE IF Len(sig) > Len(U32MaxDigits) THEN None
       ELSE IF Len(sig) = Len(U32MaxDigits) /\ digits_less(U32MaxDigits, sig)
            THEN None
       ELSE Some(digits_value(sig, 10, 0))

\* str::trim_start_matches("0x")
RECURSIVE trim_start_0x(_)
trim_start_0x(s) ==
    IF Len(s) >= 2 /\ s[1] = "0" /\ s[2] = "x" THEN trim_start_0x(From(s, 2))
    ELSE s

\* u64::from_str_radix(s.trim_start_matches("0x"), 16).ok(): an optional
\* '+', then one or more hexadecimal digits, at most 16 of them significant
parse_hex_u64(s) ==
    LET t == trim_start_0x(s)
        body == IF t # <<>> /\ Head(t) = "+" THEN Tail(t) ELSE t
        sig == strip_zeros(body)
    IN IF body = <<>> THEN None
       ELSE IF \E i \in 1..Len(body) : ~is_hex_digit(body[i]) THEN None
       ELSE IF Len(sig) > 16 THEN None
       ELSE Some(digits_value(sig, 16, 0))

RECURSIVE to_decimal(_)
\* the Display of an unsigned integer, as format!("{}") writes it
to_decimal(n) ==
    IF n < 10 THEN <<Digits[n + 1]>>
    ELSE to_decimal(n \div 10) \o <<Digits[(n % 10) + 1]>>

Whitespace == {" ", "\t", "\n", "\r"}

RECURSIVE trim_start(_)
trim_start(s) ==
    IF s # <<>> /\ Head(s) \in Whitespace THEN trim_start(Tail(s)) ELSE s

RECURSIVE trim_end(_)
trim_end(s) ==
    IF s # <<>> /\ s[Len(s)] \in Whitespace THEN trim_end(Upto(s, Len(s) - 1))
    ELSE s

\* str::trim
trim(s) == trim_end(trim_start(s))

\* ------------------------------------------------------------------------
\* gdb/parser.rs: string utilities

\* str::find(|c: char| !c.is_ascii_digit())
first_non_digit(s) ==
    LET hits == {i \in 0..(Len(s) - 1) : ~is_ascii_digit(s[i + 1])}
    IN IF hits = {} THEN None ELSE Some(Min(hits))

\* strip_token removing one leading digit only
strip_token_one_digit(line) ==
    IF line # <<>> /\ is_ascii_digit(line[1]) THEN Tail(line) ELSE line

\* strip_token
strip_token(line) ==
    LET found == first_non_digit(line)
        end == IF found = None THEN 0 ELSE found[1]
    IN From(line, end)

\* split_class_fields splitting at the last comma
split_class_fields_at_last(s) ==
    LET commas == {i \in 1..Len(s) : s[i] = ","}
    IN IF commas # {}
       THEN <<Upto(s, Max(commas) - 1), From(s, Max(commas))>>
       ELSE <<s, <<>>>>

\* split_class_fields
split_class_fields(s) ==
    LET i == str_find(s, <<",">>)
    IN IF i # None THEN <<Upto(s, i[1]), From(s, i[1] + 1)>> ELSE <<s, <<>>>>

\* The scanners (unescape, find_closing_quote, find_closing) walk the
\* characters with one rule for the backslash: an unescaped backslash makes
\* the loop skip the next character.  escaped_flags(s)[i] is the value of
\* that flag when the loop reaches the i-th character: true exactly when the
\* run of backslashes that ends right before it has odd length.
escaped_flags(s) ==
    [i \in 1..Len(s) |->
        \E k \in 1..(i - 1) :
            /\ (i - k) % 2 = 1
            /\ \A j \in k..(i - 1) : s[j] = "\\"
            /\ k = 1 \/ s[k - 1] # "\\"]

\* one step of unescape's loop that leaves `\t` as it is written
unescape_piece_keeps_tab(s, esc, i) ==
    IF esc[i] THEN <<>>
    ELSE IF s[i] = "\\"
    THEN IF i = Len(s) THEN <<"\\">>
         ELSE CASE s[i + 1] = "\"" -> <<"\"">>
                [] s[i + 1] = "n" -> <<"\n">>
                [] s[i + 1] = "\\" -> <<"\\">>
                [] OTHER -> <<"\\", s[i + 1]>>
    ELSE <<s[i]>>

\* what unescape pushes to `out` when its loop reaches the i-th character
unescape_piece(s, esc, i) ==
    IF esc[i] THEN <<>>
    ELSE IF s[i] = "\\"
    THEN IF i = Len(s) THEN <<"\\">>
         ELSE CASE s[i + 1] = "\"" -> <<"\"">>
                [] s[i + 1] = "n" -> <<"\n">>
                [] s[i + 1] = "t" -> <<"\t">>
                [] s[i + 1] = "\\" -> <<"\\">>
                [] OTHER -> <<"\\", s[i + 1]>>
    ELSE <<s[i]>>

RECURSIVE concat_range(_, _, _)
\* pieces[lo] \o ... \o pieces[hi]
concat_range(pieces, lo, hi) ==
    IF lo > hi THEN <<>>
    ELSE IF lo = hi THEN pieces[lo]
    ELSE concat_range(pieces, lo, (lo + hi) \div 2)
         \o concat_range(pieces, ((lo + hi) \div 2) + 1, hi)

\* unescape
unescape(s) ==
    LET esc == escaped_flags(s)
    IN concat_range([i \in 1..Len(s) |-> unescape_piece(s, esc, i)], 1, Len(s))

\* unquote after `let s = s.trim()`
unquote_trimmed(s) ==
    IF s # <<>> /\ Head(s) = "\"" /\ s[Len(s)] = "\"" /\ Len(s) >= 2
    THEN Some(unescape(Slice(s, 1, Len(s) - 1)))
    ELSE IF s # <<>> /\ Head(s) = "\"" THEN Some(unescape(From(s, 1)))
    ELSE Some(s)

\* unquote
unquote(s0) == unquote_trimmed(trim(s0))

\* find_closing_quote: the offset of the first '"' the loop does not skip
find_closing_quote(s) ==
    LET esc == escaped_flags(s)
        hits == {i \in 1..Len(s) : ~esc[i] /\ s[i] = "\""}
    IN IF hits = {} THEN None ELSE Some(Min(hits) - 1)

\* find_closing: `quotes` are the characters that flip in_str, `plain` the
\* ones that reach the open/close test (not skipped, no backslash, no quote,
\* outside a string), depth(i) the value of `depth` when the loop reaches
\* the i-th character; the result is the first close met at depth 1
find_closing(s, open, close) ==
    LET esc == escaped_flags(s)
        quotes == {i \in 1..Len(s) : ~esc[i] /\ s[i] = "\""}
        in_str(i) == Cardinality({q \in quotes : q < i}) % 2 = 1
        plain == {i \in 1..Len(s) :
                     ~esc[i] /\ s[i] # "\\" /\ s[i] # "\"" /\ ~in_str(i)}
        depth(i) == 1 + Cardinality({j \in plain : j < i /\ s[j] = open})
                      - Cardinality({j \in plain : j < i /\ s[j] = close})
        hits == {i \in plain : s[i] = close /\ depth(i) = 1}
    IN IF hits = {} THEN None ELSE Some(Min(hits) - 1)

\* find_closing_brace
find_closing_brace(s) == find_closing(s, "{", "}")

\* find_closing_bracket
find_closing_bracket(s) == find_closing(s, "[", "]")

\* Option::or_else
or_else(o, alt) == IF o # None THEN o ELSE alt

\* `fields.find(&needle)? + needle.len()` and `&fields[start..]`: the input
\* that follows the first occurrence of the needle
after_needle(fields, needle) ==
    LET found == str_find(fields, needle)
    IN IF found = None THEN None
       ELSE Some(From(fields, found[1] + Len(needle)))

\* `&rest[..end]` when the closing character was found
upto_end(rest, end) == IF end = None THEN None ELSE Some(Upto(rest, end[1]))

\* Option::map(unescape)
map_unescape(o) == IF o = None THEN None ELSE Some(unescape(o[1]))

\* the text up to the closing quote, brace or bracket of what follows a needle
quoted_rest(rest) ==
    IF rest = None THEN None
    ELSE upto_end(rest[1], find_closing_quote(rest[1]))

brace_rest(rest) ==
    IF rest = None THEN None
    ELSE upto_end(rest[1], find_closing_brace(rest[1]))

bracket_rest(rest) ==
    IF rest = None THEN None
    ELSE upto_end(rest[1], find_closing_bracket(rest[1]))

\* extract_str
extract_str(fields, key) ==
    map_unescape(quoted_rest(after_needle(fields, key \o <<"=", "\"">>)))

\* extract_block
extract_block(fields, key) ==
    brace_rest(after_needle(fields, key \o <<"=", "{">>))

\* the bracket form tried first by extract_list
extract_list_bracket(fields, key) ==
    bracket_rest(after_needle(fields, key \o <<"=", "[">>))

\* extract_list
extract_list(fields, key) ==
    or_else(extract_list_bracket(fields, key), extract_block(fields, key))

\* ------------------------------------------------------------------------
\* gdb/parser.rs: the string literals of the parser

PROMPT == <<"(", "g", "d", "b", ")">>

K_RUNNING == <<"r", "u", "n", "n", "i", "n", "g">>

K_STOPPED == <<"s", "t", "o", "p", "p", "e", "d">>

K_BREAKPOINT_CREATED ==
    <<"b", "r", "e", "a", "k", "p", "o", "i", "n", "t", "-", "c", "r", "e",
    "a", "t", "e", "d">>

K_BREAKPOINT_MODIFIED ==
    <<"b", "r", "e", "a", "k", "p", "o", "i", "n", "t", "-", "m", "o", "d",
    "i", "f", "i", "e", "d">>

K_BREAKPOINT_DELETED ==
    <<"b", "r", "e", "a", "k", "p", "o", "i", "n", "t", "-", "d", "e", "l",
    "e", "t", "e", "d">>

K_ERROR == <<"e", "r", "r", "o", "r">>

K_DONE == <<"d", "o", "n", "e">>

K_EXIT == <<"e", "x", "i", "t">>

K_REASON == <<"r", "e", "a", "s", "o", "n">>

K_BKPTNO == <<"b", "k", "p", "t", "n", "o">>

K_SIGNAL_NAME == <<"s", "i", "g", "n", "a", "l", "-", "n", "a", "m", "e">>

K_THREAD_ID == <<"t", "h", "r", "e", "a", "d", "-", "i", "d">>

K_BREAKPOINT_HIT ==
    <<"b", "r", "e", "a", "k", "p", "o", "i", "n", "t", "-", "h", "i", "t">>

K_END_STEPPING_RANGE ==
    <<"e", "n", "d", "-", "s", "t", "e", "p", "p", "i", "n", "g", "-", "r",
    "a", "n", "g", "e">>

K_STEP_OVER_RANGE ==
    <<"s", "t", "e", "p", "-", "o", "v", "e", "r", "-", "r", "a", "n", "g",
    "e">>

K_SIGNAL_RECEIVED ==
    <<"s", "i", "g", "n", "a", "l", "-", "r", "e", "c", "e", "i", "v", "e",
    "d">>

K_FRAME == <<"f", "r", "a", "m", "e">>

K_ADDR == <<"a", "d", "d", "r">>

K_FUNC == <<"f", "u", "n", "c">>

K_FULLNAME == <<"f", "u", "l", "l", "n", "a", "m", "e">>

K_FILE == <<"f", "i", "l", "e">>

K_LINE == <<"l", "i", "n", "e">>

K_BKPT == <<"b", "k", "p", "t">>

K_NUMBER == <<"n", "u", "m", "b", "e", "r">>

K_ENABLED == <<"e", "n", "a", "b", "l", "e", "d">>

K_ID == <<"i", "d">>

K_MSG == <<"m", "s", "g">>

K_NAME == <<"n", "a", "m", "e">>

K_VALUE == <<"v", "a", "l", "u", "e">>

K_TYPE == <<"t", "y", "p", "e">>

K_VARIABLES == <<"v", "a", "r", "i", "a", "b", "l", "e", "s">>

K_REGISTER_NAMES ==
    <<"r", "e", "g", "i", "s", "t", "e", "r", "-", "n", "a", "m", "e", "s">>

K_REGISTER_VALUES ==
    <<"r", "e", "g", "i", "s", "t", "e", "r", "-", "v", "a", "l", "u", "e",
    "s">>

K_ASM_INSNS == <<"a", "s", "m", "_", "i", "n", "s", "n", "s">>

K_ADDRESS == <<"a", "d", "d", "r", "e", "s", "s">>

K_OFFSET == <<"o", "f", "f", "s", "e", "t">>

K_INST == <<"i", "n", "s", "t">>

UNKNOWN_FUNCTION == <<"?", "?">>

DEFAULT_ERROR == <<"G", "D", "B", " ", "e", "r", "r", "o", "r">>

TARGET_PREFIX == <<"[", "t", "a", "r", "g", "e", "t", "]", " ">>

\* ------------------------------------------------------------------------
\* state/debugger_state.rs: DebuggerEvent, UiEvent, StopReason

\* DebuggerEvent::State
State(s) == [kind |-> "State", ev |-> s]

\* DebuggerEvent::Ui
Ui(u) == [kind |-> "Ui", ev |-> u]

ConsoleOutput(text) == [type |-> "ConsoleOutput", text |-> text]

GdbError(msg) == [type |-> "GdbError", msg |-> msg]

BreakpointHit(id) == [tag |-> "BreakpointHit", id |-> id]

EndStepping == [tag |-> "EndStepping"]

Signal(name) == [tag |-> "Signal", name |-> name]

Unknown == [tag |-> "Unknown"]

\* the StateEvent variants the parser builds that debugger_state.rs of this
\* revision does not declare
RegisterNamesReceived(names) == [type |-> "RegisterNamesReceived", names |-> names]

RegistersUpdated(registers) == [type |-> "RegistersUpdated", registers |-> registers]

DisasmUpdated(lines) == [type |-> "DisasmUpdated", lines |-> lines]

\* Option::unwrap_or
unwrap_or(o, default) == IF o = None THEN default ELSE o[1]

\* Option::and_then(|s| s.parse().ok()) for a u32
and_then_parse_u32(o) == IF o = None THEN None ELSE parse_u32(o[1])

\* Option::and_then(|s| u64::from_str_radix(s.trim_start_matches("0x"), 16).ok())
and_then_parse_hex_u64(o) == IF o = None THEN None ELSE parse_hex_u64(o[1])

\* ------------------------------------------------------------------------
\* gdb/parser.rs: records

\* `let text = unquote(..)?; Some(Ui(ConsoleOutput(..)))`
console_event(text, prefix) ==
    IF text = None THEN None ELSE Some(Ui(ConsoleOutput(prefix \o text[1])))

\* parse_console_stream
parse_console_stream(line) == console_event(unquote(From(line, 1)), <<>>)

\* parse_target_stream
parse_target_stream(line) ==
    console_event(unquote(From(line, 1)), TARGET_PREFIX)

\* the match of parse_stop_reason without the "step-over-range" pattern
stop_reason_match_one_stepping(reason, fields) ==
    IF reason = Some(K_BREAKPOINT_HIT)
    THEN BreakpointHit(unwrap_or(
             and_then_parse_u32(extract_str(fields, K_BKPTNO)), 0))
    ELSE IF reason = Some(K_END_STEPPING_RANGE)
    THEN EndStepping
    ELSE IF reason = Some(K_SIGNAL_RECEIVED)
    THEN Signal(unwrap_or(extract_str(fields, K_SIGNAL_NAME), <<>>))
    ELSE Unknown

\* the match of parse_stop_reason
stop_reason_match(reason, fields) ==
    IF reason = Some(K_BREAKPOINT_HIT)
    THEN BreakpointHit(unwrap_or(
             and_then_parse_u32(extract_str(fields, K_BKPTNO)), 0))
    ELSE IF reason = Some(K_END_STEPPING_RANGE)
            \/ reason = Some(K_STEP_OVER_RANGE)
    THEN EndStepping
    ELSE IF reason = Some(K_SIGNAL_RECEIVED)
    THEN Signal(unwrap_or(extract_str(fields, K_SIGNAL_NAME), <<>>))
    ELSE Unknown

\* parse_stop_reason
parse_stop_reason(fields) ==
    stop_reason_match(extract_str(fields, K_REASON), fields)

\* parse_frame taking the file from `file` before `fullname`
parse_frame_prefers_file(block) ==
    Some([addr |-> unwrap_or(
                       and_then_parse_hex_u64(extract_str(block, K_ADDR)), 0),
          function |-> unwrap_or(extract_str(block, K_FUNC),
                                 UNKNOWN_FUNCTION),
          file |-> or_else(extract_str(block, K_FILE),
                           extract_str(block, K_FULLNAME)),
          line |-> and_then_parse_u32(extract_str(block, K_LINE))])

\* parse_frame
parse_frame(block) ==
    Some([addr |-> unwrap_or(
                       and_then_parse_hex_u64(extract_str(block, K_ADDR)), 0),
          function |-> unwrap_or(extract_str(block, K_FUNC),
                                 UNKNOWN_FUNCTION),
          file |-> or_else(extract_str(block, K_FULLNAME),
                           extract_str(block, K_FILE)),
          line |-> and_then_parse_u32(extract_str(block, K_LINE))])

\* `let block = extract_block(fields, "frame")?; parse_frame(block)`
and_then_parse_frame(block) ==
    IF block = None THEN None ELSE parse_frame(block[1])

\* parse_frame_field
parse_frame_field(fields) ==
    and_then_parse_frame(extract_block(fields, K_FRAME))

\* Option::map(|s| s == "y").unwrap_or(true)
enabled_or_true(o) == IF o = None THEN TRUE ELSE o[1] = <<"y">>

\* the Breakpoint built by parse_breakpoint_field; `file` is the Option that
\* the `?` of the source unwraps
breakpoint_of(id, file, line, enabled) ==
    IF file = None THEN None
    ELSE Some([id |-> id, file |-> file[1], line |-> line,
               enabled |-> enabled])

\* parse_breakpoint_field after `let block = extract_block(fields, key)?`
parse_breakpoint_block(block) ==
    IF block = None THEN None
    ELSE breakpoint_of(
             unwrap_or(and_then_parse_u32(extract_str(block[1], K_NUMBER)),
                       0),
             or_else(extract_str(block[1], K_FULLNAME),
                     extract_str(block[1], K_FILE)),
             unwrap_or(and_then_parse_u32(extract_str(block[1], K_LINE)), 0),
             enabled_or_true(extract_str(block[1], K_ENABLED)))

\* parse_breakpoint_field
parse_breakpoint_field(fields, key) ==
    parse_breakpoint_block(extract_block(fields, key))

\* the ProgramPaused event built with an empty frame when there is none
paused_event_without_frame(reason, frame, thread_id) ==
    Some(State(ProgramPaused(
        [thread_id |-> thread_id,
         frame |-> IF frame = None
                   THEN [addr |-> 0, function |-> UNKNOWN_FUNCTION,
                         file |-> None, line |-> None]
                   ELSE frame[1],
         stack |-> <<>>,
         stop_reason |-> reason])))

\* the event of the "stopped" arm; `frame` is the Option that the `?` of the
\* source unwraps
paused_event(reason, frame, thread_id) ==
    IF frame = None THEN None
    ELSE Some(State(ProgramPaused([thread_id |-> thread_id,
                                   frame |-> frame[1],
                                   stack |-> <<frame[1]>>,
                                   stop_reason |-> reason])))

\* the match of parse_exec_async on (class, fields)
exec_async_match(class, fields) ==
    IF class = K_RUNNING THEN Some(State(ProgramStarted))
    ELSE IF class = K_STOPPED
    THEN paused_event(
             parse_stop_reason(fields),
             parse_frame_field(fields),
             unwrap_or(and_then_parse_u32(extract_str(fields, K_THREAD_ID)),
                       1))
    ELSE None

\* parse_exec_async
parse_exec_async(line) ==
    LET split == split_class_fields(From(line, 1))
    IN exec_async_match(split[1], split[2])

\* `let bp = parse_breakpoint_field(..)?; Some(State(BreakpointAdded {..}))`
added_event(bp) ==
    IF bp = None THEN None ELSE Some(State(BreakpointAdded(bp[1])))

\* `let id = ..?; Some(State(BreakpointRemoved { id }))`
removed_event(id) ==
    IF id = None THEN None ELSE Some(State(BreakpointRemoved(id[1])))

\* the match of parse_notify_async on (class, fields)
notify_async_match(class, fields) ==
    IF class = K_BREAKPOINT_CREATED \/ class = K_BREAKPOINT_MODIFIED
    THEN added_event(parse_breakpoint_field(fields, K_BKPT))
    ELSE IF class = K_BREAKPOINT_DELETED
    THEN removed_event(and_then_parse_u32(extract_str(fields, K_ID)))
    ELSE None

\* parse_notify_async
parse_notify_async(line) ==
    LET split == split_class_fields(From(line, 1))
    IN notify_async_match(split[1], split[2])

\* the Variable built by parse_single_variable; `name` is the Option that
\* the `?` of the source unwraps
variable_of(name, value, type_) ==
    IF name = None THEN None
    ELSE IF name[1] = <<>> THEN None
    ELSE Some([name |-> name[1], value |-> value, type_ |-> type_])

\* parse_single_variable
parse_single_variable(block) ==
    variable_of(extract_str(block, K_NAME),
                unwrap_or(extract_str(block, K_VALUE), <<>>),
                unwrap_or(extract_str(block, K_TYPE), <<>>))

\* `block = &rest[..end]; rest = &rest[end + 1..]` when the closing character
\* was found: the block and the input left for the next turn
split_at_end(rest, end) ==
    IF end = None THEN None
    ELSE Some(<<Upto(rest, end[1]), From(rest, end[1] + 1)>>)

\* one turn of the loops over `{...}` blocks: `rest.find('{')`, then
\* find_closing_brace; None when the loop ends
next_block_in(rest) ==
    IF rest = None THEN None
    ELSE split_at_end(rest[1], find_closing_brace(rest[1]))

next_block(rest0) == next_block_in(after_needle(rest0, <<"{">>))

\* one turn of the loop of parse_register_names: `rest.find('"')`, then
\* find_closing_quote
next_quoted_in(rest) ==
    IF rest = None THEN None
    ELSE split_at_end(rest[1], find_closing_quote(rest[1]))

next_quoted(rest0) == next_quoted_in(after_needle(rest0, <<"\"">>))

RECURSIVE variables_from(_)
\* the while loop of parse_variables from a turn on; an Option is a sequence
\* of at most one element, so appending it pushes the variable if there is one
variables_from(turn) ==
    IF turn = None THEN <<>>
    ELSE parse_single_variable(turn[1][1])
         \o variables_from(next_block(turn[1][2]))

\* parse_variables once the list is extracted
variables_of_list(list) ==
    IF list = None THEN <<>>
    ELSE IF contains(list[1], <<"{">>)
    THEN variables_from(next_block(list[1]))
    ELSE parse_single_variable(list[1])

\* parse_variables
parse_variables(fields) ==
    variables_of_list(extract_list(fields, K_VARIABLES))

RECURSIVE names_from(_)
\* the while loop of parse_register_names from a turn on
names_from(turn) ==
    IF turn = None THEN <<>>
    ELSE <<turn[1][1]>> \o names_from(next_quoted(turn[1][2]))

\* parse_register_names once the list is extracted
names_of_list(list) ==
    IF list = None THEN <<>> ELSE names_from(next_quoted(list[1]))

\* parse_register_names
parse_register_names(fields) ==
    names_of_list(extract_list(fields, K_REGISTER_NAMES))

\* the Register pushed by parse_registers for one block
register_of(block) ==
    [number |-> unwrap_or(
                    and_then_parse_u32(extract_str(block, K_NUMBER)), 0),
     name |-> <<>>,
     value |-> unwrap_or(extract_str(block, K_VALUE), <<>>)]

RECURSIVE registers_from(_)
\* the while loop of parse_registers from a turn on
registers_from(turn) ==
    IF turn = None THEN <<>>
    ELSE <<register_of(turn[1][1])>>
         \o registers_from(next_block(turn[1][2]))

\* parse_registers once the list is extracted
registers_of_list(list) ==
    IF list = None THEN <<>> ELSE registers_from(next_block(list[1]))

\* parse_registers
parse_registers(fields) ==
    registers_of_list(extract_list(fields, K_REGISTER_VALUES))

\* the AsmLine pushed by parse_disasm for one block
asm_line_of(block) ==
    [addr |-> unwrap_or(
                  and_then_parse_hex_u64(extract_str(block, K_ADDRESS)), 0),
     offset |-> unwrap_or(
                    and_then_parse_u32(extract_str(block, K_OFFSET)), 0),
     inst |-> unwrap_or(extract_str(block, K_INST), <<>>),
     current |-> FALSE]

RECURSIVE asm_lines_from(_)
\* the while loop of parse_disasm from a turn on
asm_lines_from(turn) ==
    IF turn = None THEN <<>>
    ELSE <<asm_line_of(turn[1][1])>>
         \o asm_lines_from(next_block(turn[1][2]))

\* parse_disasm once the list is extracted
asm_lines_of_list(list) ==
    IF list = None THEN <<>> ELSE asm_lines_from(next_block(list[1]))

\* parse_disasm
parse_disasm(fields) ==
    asm_lines_of_list(extract_list(fields, K_ASM_INSNS))

\* the "done" arm of parse_result looking at the register names before
\* the variables
done_event_names_first(fields, bp, vars_, regs, lines) ==
    IF bp # None THEN Some(State(BreakpointAdded(bp[1])))
    ELSE IF contains(fields, K_REGISTER_NAMES \o <<"=">>)
    THEN Some(State(RegisterNamesReceived(parse_register_names(fields))))
    ELSE IF vars_ # <<>> THEN Some(State(LocalsUpdated(vars_)))
    ELSE IF regs # <<>> THEN Some(State(RegistersUpdated(regs)))
    ELSE IF lines # <<>> THEN Some(State(DisasmUpdated(lines)))
    ELSE None

\* the returns of the "done" arm of parse_result, in the order of the source:
\* bp, vars_, regs and lines are what the guarded calls produced (None or
\* empty when the guard `fields.contains(..)` is false)
done_event(fields, bp, vars_, regs, lines) ==
    IF bp # None THEN Some(State(BreakpointAdded(bp[1])))
    ELSE IF vars_ # <<>> THEN Some(State(LocalsUpdated(vars_)))
    ELSE IF contains(fields, K_REGISTER_NAMES \o <<"=">>)
    THEN Some(State(RegisterNamesReceived(parse_register_names(fields))))
    ELSE IF regs # <<>> THEN Some(State(RegistersUpdated(regs)))
    ELSE IF lines # <<>> THEN Some(State(DisasmUpdated(lines)))
    ELSE None

\* the "done" arm of parse_result
parse_done(fields) ==
    done_event(
        fields,
        IF contains(fields, K_BKPT \o <<"=">>)
        THEN parse_breakpoint_field(fields, K_BKPT) ELSE None,
        IF contains(fields, K_VARIABLES \o <<"=">>)
        THEN parse_variables(fields) ELSE <<>>,
        IF contains(fields, K_REGISTER_VALUES \o <<"=">>)
        THEN parse_registers(fields) ELSE <<>>,
        IF contains(fields, K_ASM_INSNS \o <<"=">>)
        THEN parse_disasm(fields) ELSE <<>>)

\* the match of parse_result with an "error" arm that gives up when the
\* record has no msg field
result_match_error_needs_msg(class, fields) ==
    IF class = K_ERROR
    THEN IF extract_str(fields, K_MSG) = None THEN None
         ELSE Some(Ui(GdbError(extract_str(fields, K_MSG)[1])))
    ELSE IF class = K_DONE THEN parse_done(fields)
    ELSE IF class = K_RUNNING THEN Some(State(ProgramStarted))
    ELSE IF class = K_EXIT THEN Some(State(ProgramExited(None)))
    ELSE None

\* the match of parse_result on (class, fields)
result_match(class, fields) ==
    IF class = K_ERROR
    THEN Some(Ui(GdbError(unwrap_or(extract_str(fields, K_MSG),
                                    DEFAULT_ERROR))))
    ELSE IF class = K_DONE THEN parse_done(fields)
    ELSE IF class = K_RUNNING THEN Some(State(ProgramStarted))
    ELSE IF class = K_EXIT THEN Some(State(ProgramExited(None)))
    ELSE None

\* parse_result
parse_result(line) ==
    LET split == split_class_fields(From(line, 1))
    IN result_match(split[1], split[2])

\* `match line.chars().next()?` of parse_line, on the line without its token
parse_stripped(line) ==
    IF line = <<>> THEN None
    ELSE CASE line[1] = "~" -> parse_console_stream(line)
           [] line[1] = "@" -> parse_target_stream(line)
           [] line[1] = "&" -> None
           [] line[1] = "*" -> parse_exec_async(line)
           [] line[1] = "=" -> parse_notify_async(line)
           [] line[1] = "^" -> parse_result(line)
           [] OTHER -> None

\* parse_line reporting a line of no record class as console text
parse_line_unknown_as_console(line0) ==
    IF line0 = <<>> THEN None
    ELSE IF parse_stripped(strip_token(line0)) = None
         THEN Some(Ui(ConsoleOutput(line0)))
         ELSE parse_stripped(strip_token(line0))

\* parse_line
parse_line(line0) ==
    IF line0 = PROMPT \/ line0 = <<>> THEN None
    ELSE parse_stripped(strip_token(line0))

\* ------------------------------------------------------------------------
\* ui/command.rs: Command

Command_Run == [tag |-> "Run"]

Command_Continue == [tag |-> "Continue"]

Command_Step == [tag |-> "Step"]

Command_Next == [tag |-> "Next"]

Command_Finish == [tag |-> "Finish"]

Command_Interrupt == [tag |-> "Interrupt"]

Command_Restart == [tag |-> "Restart"]

Command_AddBreakpoint(file, line) ==
    [tag |-> "AddBreakpoint", file |-> file, line |-> line]

Command_RemoveBreakpoint(id) == [tag |-> "RemoveBreakpoint", id |-> id]

Command_ToggleBreakpoint(id, enable) ==
    [tag |-> "ToggleBreakpoint", id |-> id, enable |-> enable]

Command_LoadExecutable(path) == [tag |-> "LoadExecutable", path |-> path]

Command_RequestLocals == [tag |-> "RequestLocals"]

Command_RequestStack == [tag |-> "RequestStack"]

Command_Evaluate(expr) == [tag |-> "Evaluate", expr |-> expr]

Command_Raw(s) == [tag |-> "Raw", s |-> s]

\* the variants that ui/app.rs sends and the Command of this tree does not
\* declare
Command_RequestRegisterNames == [tag |-> "RequestRegisterNames"]

Command_RequestRegisters == [tag |-> "RequestRegisters"]

Command_RequestDisasm == [tag |-> "RequestDisasm"]

\* ------------------------------------------------------------------------
\* gdb/writer.rs

MI_EXEC_RUN == <<"-", "e", "x", "e", "c", "-", "r", "u", "n">>

MI_EXEC_CONTINUE ==
    <<"-", "e", "x", "e", "c", "-", "c", "o", "n", "t", "i", "n", "u", "e">>

MI_EXEC_STEP == <<"-", "e", "x", "e", "c", "-", "s", "t", "e", "p">>

MI_EXEC_NEXT == <<"-", "e", "x", "e", "c", "-", "n", "e", "x", "t">>

MI_EXEC_FINISH ==
    <<"-", "e", "x", "e", "c", "-", "f", "i", "n", "i", "s", "h">>

MI_EXEC_INTERRUPT ==
    <<"-", "e", "x", "e", "c", "-", "i", "n", "t", "e", "r", "r", "u", "p",
    "t">>

MI_BREAK_INSERT ==
    <<"-", "b", "r", "e", "a", "k", "-", "i", "n", "s", "e", "r", "t", " ">>

MI_BREAK_DELETE ==
    <<"-", "b", "r", "e", "a", "k", "-", "d", "e", "l", "e", "t", "e", " ">>

MI_BREAK_ENABLE ==
    <<"-", "b", "r", "e", "a", "k", "-", "e", "n", "a", "b", "l", "e", " ">>

MI_BREAK_DISABLE ==
    <<"-", "b", "r", "e", "a", "k", "-", "d", "i", "s", "a", "b", "l", "e",
    " ">>

MI_FILE_EXEC_AND_SYMBOLS ==
    <<"-", "f", "i", "l", "e", "-", "e", "x", "e", "c", "-", "a", "n", "d",
    "-", "s", "y", "m", "b", "o", "l", "s", " ">>

MI_STACK_LIST_VARIABLES ==
    <<"-", "s", "t", "a", "c", "k", "-", "l", "i", "s", "t", "-", "v", "a",
    "r", "i", "a", "b", "l", "e", "s", " ", "-", "-", "a", "l", "l", "-",
    "v", "a", "l", "u", "e", "s">>

MI_STACK_LIST_FRAMES ==
    <<"-", "s", "t", "a", "c", "k", "-", "l", "i", "s", "t", "-", "f", "r",
    "a", "m", "e", "s">>

MI_DATA_EVALUATE_EXPRESSION ==
    <<"-", "d", "a", "t", "a", "-", "e", "v", "a", "l", "u", "a", "t", "e",
    "-", "e", "x", "p", "r", "e", "s", "s", "i", "o", "n", " ">>

MI_DATA_LIST_REGISTER_NAMES ==
    <<"-", "d", "a", "t", "a", "-", "l", "i", "s", "t", "-", "r", "e", "g",
    "i", "s", "t", "e", "r", "-", "n", "a", "m", "e", "s">>

MI_DATA_LIST_REGISTER_VALUES ==
    <<"-", "d", "a", "t", "a", "-", "l", "i", "s", "t", "-", "r", "e", "g",
    "i", "s", "t", "e", "r", "-", "v", "a", "l", "u", "e", "s", " ", "x">>

\* the 64 bytes that follow the program counter, as plain instructions
MI_DATA_DISASSEMBLE ==
    <<"-", "d", "a", "t", "a", "-", "d", "i", "s", "a", "s", "s", "e", "m",
    "b", "l", "e", " ", "-", "s", " ", "$", "p", "c", " ", "-", "e", " ",
    "\"", "$", "p", "c", " ", "+", " ", "6", "4", "\"", " ", "-", "-", " ",
    "0">>

\* the arms of command_to_mi for the register and disassembly queries
query_to_mi(cmd) ==
    CASE cmd.tag = "RequestRegisterNames" -> MI_DATA_LIST_REGISTER_NAMES
      [] cmd.tag = "RequestRegisters" -> MI_DATA_LIST_REGISTER_VALUES
      [] cmd.tag = "RequestDisasm" -> MI_DATA_DISASSEMBLE

\* command_to_mi with a command of its own for Restart
command_to_mi_restart_differs(cmd) ==
    CASE cmd.tag = "Run" -> MI_EXEC_RUN
      [] cmd.tag = "Continue" -> MI_EXEC_CONTINUE
      [] cmd.tag = "Step" -> MI_EXEC_STEP
      [] cmd.tag = "Next" -> MI_EXEC_NEXT
      [] cmd.tag = "Finish" -> MI_EXEC_FINISH
      [] cmd.tag = "Interrupt" -> MI_EXEC_INTERRUPT
      [] cmd.tag = "Restart" -> MI_EXEC_RUN \o <<" ", "&">>
      [] cmd.tag = "AddBreakpoint" ->
             MI_BREAK_INSERT \o cmd.file \o <<":">> \o to_decimal(cmd.line)
      [] cmd.tag = "RemoveBreakpoint" -> MI_BREAK_DELETE \o to_decimal(cmd.id)
      [] cmd.tag = "ToggleBreakpoint" ->
             IF cmd.enable THEN MI_BREAK_ENABLE \o to_decimal(cmd.id)
             ELSE MI_BREAK_DISABLE \o to_decimal(cmd.id)
      [] cmd.tag = "LoadExecutable" -> MI_FILE_EXEC_AND_SYMBOLS \o cmd.path
      [] cmd.tag = "RequestLocals" -> MI_STACK_LIST_VARIABLES
      [] cmd.tag = "RequestStack" -> MI_STACK_LIST_FRAMES
      [] cmd.tag = "Evaluate" -> MI_DATA_EVALUATE_EXPRESSION \o cmd.expr
      [] cmd.tag = "Raw" -> cmd.s
      [] OTHER -> query_to_mi(cmd)

\* command_to_mi inserting the breakpoint one line above
command_to_mi_line_before(cmd) ==
    CASE cmd.tag = "Run" -> MI_EXEC_RUN
      [] cmd.tag = "Continue" -> MI_EXEC_CONTINUE
      [] cmd.tag = "Step" -> MI_EXEC_STEP
      [] cmd.tag = "Next" -> MI_EXEC_NEXT
      [] cmd.tag = "Finish" -> MI_EXEC_FINISH
      [] cmd.tag = "Interrupt" -> MI_EXEC_INTERRUPT
      [] cmd.tag = "Restart" -> MI_EXEC_RUN
      [] cmd.tag = "AddBreakpoint" ->
             MI_BREAK_INSERT \o cmd.file \o <<":">> \o to_decimal(cmd.line - 1)
      [] cmd.tag = "RemoveBreakpoint" -> MI_BREAK_DELETE \o to_decimal(cmd.id)
      [] cmd.tag = "ToggleBreakpoint" ->
             IF cmd.enable THEN MI_BREAK_ENABLE \o to_decimal(cmd.id)
             ELSE MI_BREAK_DISABLE \o to_decimal(cmd.id)
      [] cmd.tag = "LoadExecutable" -> MI_FILE_EXEC_AND_SYMBOLS \o cmd.path
      [] cmd.tag = "RequestLocals" -> MI_STACK_LIST_VARIABLES
      [] cmd.tag = "RequestStack" -> MI_STACK_LIST_FRAMES
      [] cmd.tag = "Evaluate" -> MI_DATA_EVALUATE_EXPRESSION \o cmd.expr
      [] cmd.tag = "Raw" -> cmd.s
      [] OTHER -> query_to_mi(cmd)

\* command_to_mi without a command for RequestStack
command_to_mi_no_stack(cmd) ==
    CASE cmd.tag = "Run" -> MI_EXEC_RUN
      [] cmd.tag = "Continue" -> MI_EXEC_CONTINUE
      [] cmd.tag = "Step" -> MI_EXEC_STEP
      [] cmd.tag = "Next" -> MI_EXEC_NEXT
      [] cmd.tag = "Finish" -> MI_EXEC_FINISH
      [] cmd.tag = "Interrupt" -> MI_EXEC_INTERRUPT
      [] cmd.tag = "Restart" -> MI_EXEC_RUN
      [] cmd.tag = "AddBreakpoint" ->
             MI_BREAK_INSERT \o cmd.file \o <<":">> \o to_decimal(cmd.line)
      [] cmd.tag = "RemoveBreakpoint" -> MI_BREAK_DELETE \o to_decimal(cmd.id)
      [] cmd.tag = "ToggleBreakpoint" ->
             IF cmd.enable THEN MI_BREAK_ENABLE \o to_decimal(cmd.id)
             ELSE MI_BREAK_DISABLE \o to_decimal(cmd.id)
      [] cmd.tag = "LoadExecutable" -> MI_FILE_EXEC_AND_SYMBOLS \o cmd.path
      [] cmd.tag = "RequestLocals" -> MI_STACK_LIST_VARIABLES
      [] cmd.tag = "RequestStack" -> <<>>
      [] cmd.tag = "Evaluate" -> MI_DATA_EVALUATE_EXPRESSION \o cmd.expr
      [] cmd.tag = "Raw" -> cmd.s
      [] OTHER -> query_to_mi(cmd)

\* command_to_mi; the last arm stands for the arms of the three queries
\* that ui/app.rs sends
command_to_mi(cmd) ==
    CASE cmd.tag = "Run" -> MI_EXEC_RUN
      [] cmd.tag = "Continue" -> MI_EXEC_CONTINUE
      [] cmd.tag = "Step" -> MI_EXEC_STEP
      [] cmd.tag = "Next" -> MI_EXEC_NEXT
      [] cmd.tag = "Finish" -> MI_EXEC_FINISH
      [] cmd.tag = "Interrupt" -> MI_EXEC_INTERRUPT
      [] cmd.tag = "Restart" -> MI_EXEC_RUN
      [] cmd.tag = "AddBreakpoint" ->
             MI_BREAK_INSERT \o cmd.file \o <<":">> \o to_decimal(cmd.line)
      [] cmd.tag = "RemoveBreakpoint" -> MI_BREAK_DELETE \o to_decimal(cmd.id)
      [] cmd.tag = "ToggleBreakpoint" ->
             IF cmd.enable THEN MI_BREAK_ENABLE \o to_decimal(cmd.id)
             ELSE MI_BREAK_DISABLE \o to_decimal(cmd.id)
      [] cmd.tag = "LoadExecutable" -> MI_FILE_EXEC_AND_SYMBOLS \o cmd.path
      [] cmd.tag = "RequestLocals" -> MI_STACK_LIST_VARIABLES
      [] cmd.tag = "RequestStack" -> MI_STACK_LIST_FRAMES
      [] cmd.tag = "Evaluate" -> MI_DATA_EVALUATE_EXPRESSION \o cmd.expr
      [] cmd.tag = "Raw" -> cmd.s
      [] OTHER -> query_to_mi(cmd)

\* ------------------------------------------------------------------------
\* The reducer driven by arbitrary StateEvents

InitReducer ==
    /\ state = new
    /\ prev = new
    /\ last = NoEvent
    /\ lastLine = None

InitProcIdle ==
    /\ cmd_q = <<>>
    /\ sent = <<>>
    /\ seq = 1
    /\ stdin = <<>>
    /\ gdb_out = <<>>
    /\ line_q = <<>>
    /\ events = <<>>
    /\ taken = <<>>
    /\ ui = "open"
    /\ child = "none"
    /\ loop_pc = "idle"
    /\ reader_pc = "idle"

InitDecoderIdle ==
    /\ in_token = <<>>
    /\ in_record = <<>>
    /\ stripped = <<>>
    /\ parsed = <<>>

Init == InitReducer /\ InitProcIdle /\ InitDecoderIdle

\* App::update receives one StateEvent and applies it
Apply(event) ==
    /\ event.type = "BreakpointAdded" =>
           Len(state.persistent.breakpoints) < MaxBps
    /\ prev' = state
    /\ last' = event
    /\ lastLine' = None
    /\ state' = apply(state, event)
    /\ UNCHANGED <<procVars, decoderVars>>

Next == \E event \in StateEvents : Apply(event)

Spec == Init /\ [][Next]_vars

\* ------------------------------------------------------------------------
\* The reducer driven by MI lines: run_loop takes a line, parse_line decodes
\* it, and App::update applies the StateEvent it carries

LineCreated1 ==
    <<"=", "b", "r", "e", "a", "k", "p", "o", "i", "n", "t", "-", "c", "r",
    "e", "a", "t", "e", "d", ",", "b", "k", "p", "t", "=", "{", "n", "u",
    "m", "b", "e", "r", "=", "\"", "1", "\"", ",", "f", "i", "l", "e", "=",
    "\"", "a", ".", "c", "\"", ",", "l", "i", "n", "e", "=", "\"", "1", "0",
    "\"", "}">>

LineCreated2 ==
    <<"=", "b", "r", "e", "a", "k", "p", "o", "i", "n", "t", "-", "c", "r",
    "e", "a", "t", "e", "d", ",", "b", "k", "p", "t", "=", "{", "n", "u",
    "m", "b", "e", "r", "=", "\"", "2", "\"", ",", "f", "i", "l", "e", "=",
    "\"", "a", ".", "c", "\"", ",", "l", "i", "n", "e", "=", "\"", "2", "0",
    "\"", ",", "e", "n", "a", "b", "l", "e", "d", "=", "\"", "n", "\"",
    "}">>

LineModified1 ==
    <<"=", "b", "r", "e", "a", "k", "p", "o", "i", "n", "t", "-", "m", "o",
    "d", "i", "f", "i", "e", "d", ",", "b", "k", "p", "t", "=", "{", "n",
    "u", "m", "b", "e", "r", "=", "\"", "1", "\"", ",", "f", "i", "l", "e",
    "=", "\"", "a", ".", "c", "\"", ",", "l", "i", "n", "e", "=", "\"", "1",
    "0", "\"", ",", "e", "n", "a", "b", "l", "e", "d", "=", "\"", "n", "\"",
    "}">>

LineRunning ==
    <<"*", "r", "u", "n", "n", "i", "n", "g", ",", "t", "h", "r", "e", "a",
    "d", "-", "i", "d", "=", "\"", "a", "l", "l", "\"">>

LineStopped ==
    <<"*", "s", "t", "o", "p", "p", "e", "d", ",", "r", "e", "a", "s", "o",
    "n", "=", "\"", "e", "n", "d", "-", "s", "t", "e", "p", "p", "i", "n",
    "g", "-", "r", "a", "n", "g", "e", "\"", ",", "f", "r", "a", "m", "e",
    "=", "{", "a", "d", "d", "r", "=", "\"", "0", "x", "1", "0", "\"", ",",
    "f", "u", "n", "c", "=", "\"", "f", "\"", "}">>

LineStoppedNoFrame ==
    <<"*", "s", "t", "o", "p", "p", "e", "d", ",", "r", "e", "a", "s", "o",
    "n", "=", "\"", "e", "x", "i", "t", "e", "d", "-", "n", "o", "r", "m",
    "a", "l", "l", "y", "\"">>

LineLocals ==
    <<"^", "d", "o", "n", "e", ",", "v", "a", "r", "i", "a", "b", "l", "e",
    "s", "=", "[", "{", "n", "a", "m", "e", "=", "\"", "x", "\"", ",", "v",
    "a", "l", "u", "e", "=", "\"", "1", "\"", ",", "t", "y", "p", "e", "=",
    "\"", "i", "n", "t", "\"", "}", "]">>

LineNoLocals ==
    <<"^", "d", "o", "n", "e", ",", "v", "a", "r", "i", "a", "b", "l", "e",
    "s", "=", "[", "]">>

LineExit == <<"^", "e", "x", "i", "t">>

LineError ==
    <<"^", "e", "r", "r", "o", "r", ",", "m", "s", "g", "=", "\"", "n", "o",
    "\"">>

DELETED_PREFIX ==
    <<"=", "b", "r", "e", "a", "k", "p", "o", "i", "n", "t", "-", "d", "e",
    "l", "e", "t", "e", "d", ",", "i", "d", "=", "\"">>

\* the line GDB emits when breakpoint n is deleted
LineDeleted(n) == DELETED_PREFIX \o to_decimal(n) \o <<"\"">>

\* a line carrying the response token `token`
WithToken(token, line) == to_decimal(token) \o line

DeletedIds == {1, 2, 3}

LineStoppedHitNoFrame ==
    <<"*", "s", "t", "o", "p", "p", "e", "d", ",", "r", "e", "a", "s", "o",
    "n", "=", "\"", "b", "r", "e", "a", "k", "p", "o", "i", "n", "t", "-",
    "h", "i", "t", "\"", ",", "b", "k", "p", "t", "n", "o", "=", "\"", "1",
    "\"", ",", "t", "h", "r", "e", "a", "d", "-", "i", "d", "=", "\"", "1",
    "\"">>

\* a frame block whose brace is never closed
LineStoppedOpenFrame ==
    <<"*", "s", "t", "o", "p", "p", "e", "d", ",", "r", "e", "a", "s", "o",
    "n", "=", "\"", "s", "i", "g", "n", "a", "l", "-", "r", "e", "c", "e",
    "i", "v", "e", "d", "\"", ",", "s", "i", "g", "n", "a", "l", "-", "n",
    "a", "m", "e", "=", "\"", "S", "I", "G", "I", "N", "T", "\"", ",", "f",
    "r", "a", "m", "e", "=", "{", "a", "d", "d", "r", "=", "\"", "0", "x",
    "1", "0", "\"">>

LineStoppedBare == <<"*", "s", "t", "o", "p", "p", "e", "d">>

\* the reply to a command that gives no result, such as -file-exec-and-symbols
LineDone == <<"^", "d", "o", "n", "e">>

\* the `*stopped` records without a frame block that can be extracted
NoFrameLines ==
    {LineStoppedNoFrame, LineStoppedHitNoFrame, LineStoppedOpenFrame,
     LineStoppedBare}

Lines ==
    {LineCreated1, LineCreated2, LineModified1, LineRunning, LineStopped,
     LineLocals, LineNoLocals, LineExit, LineError, LineDone, PROMPT}
    \cup NoFrameLines
    \cup {LineDeleted(n) : n \in DeletedIds}
    \cup {WithToken(7, LineDeleted(2))}

\* parse_line over the lines fed, decoded once
Decoded == {<<line, parse_line(line)>> : line \in Lines}

\* parse_line of a line of the table
decoded(line) == (CHOOSE d \in Decoded : d[1] = line)[2]

\* run_loop's line arm followed by App::update: the event of a line, applied
\* when it is a StateEvent
FeedLine(line) ==
    LET event == (CHOOSE d \in Decoded : d[1] = line)[2]
        applies == event # None /\ event[1].kind = "State"
    IN /\ (applies /\ event[1].ev.type = "BreakpointAdded") =>
              Len(state.persistent.breakpoints) < MaxBps
       /\ prev' = state
       /\ last' = IF applies THEN event[1].ev ELSE NoEvent
       /\ lastLine' = Some(line)
       /\ state' = IF applies THEN apply(state, event[1].ev) ELSE state
       /\ UNCHANGED <<procVars, decoderVars>>

NextLines == \E line \in Lines : FeedLine(line)

SpecLines == Init /\ [][NextLines]_vars


\* ------------------------------------------------------------------------
\* The decoder's token stripping on its own: strip_token and parse_line
\* applied to lines made of a digit string and a rest

MaxStrips == 2

Tokens == {<<>>, <<"7">>, <<"4", "2">>, <<"0", "0", "7">>}

LineConsole == <<"~", "\"", "h", "i", "\"">>

LineLog == <<"&", "\"", "x", "\"">>

\* the rests: every record class, the prompt, the empty rest (the line is
\* then the digit string alone) and a rest that starts with no sigil
Records ==
    {LineCreated1, LineModified1, LineRunning, LineStopped, LineLocals,
     LineExit, LineError, LineDeleted(2), LineConsole, LineLog, PROMPT,
     <<>>, <<"x", "1">>}

InitDecoder ==
    /\ InitReducer
    /\ InitProcIdle
    /\ in_token \in Tokens
    /\ in_record \in Records
    /\ stripped = <<>>
    /\ parsed = <<>>

\* strip_token called on the line, then on what it returned
StripToken ==
    /\ Len(stripped) < MaxStrips
    /\ stripped' = Append(stripped,
                          strip_token(IF stripped = <<>>
                                      THEN in_token \o in_record
                                      ELSE stripped[Len(stripped)]))
    /\ UNCHANGED <<in_token, in_record, parsed>>
    /\ UNCHANGED <<reducerVars, procVars>>

\* parse_line called on the line
ParseLine ==
    /\ parsed = <<>>
    /\ parsed' = <<parse_line(in_token \o in_record)>>
    /\ UNCHANGED <<in_token, in_record, stripped>>
    /\ UNCHANGED <<reducerVars, procVars>>

NextDecoder == StripToken \/ ParseLine

SpecDecoder == InitDecoder /\ [][NextDecoder]_vars

\* ------------------------------------------------------------------------
\* The event translation on its own: parse_line applied to records of
\* every class, built from a sigil, a class and a tail of fields

RecordTokens == {<<>>, <<"4", "2">>}

TailThreadAll ==
    <<",", "t", "h", "r", "e", "a", "d", "-", "i", "d", "=", "\"", "a", "l",
    "l", "\"">>

TailOpenFrame == <<",", "f", "r", "a", "m", "e", "=", "{">>

TailMsg == <<",", "m", "s", "g", "=", "\"", "x", "\"">>

TailTwoFields ==
    <<",", "t", "h", "r", "e", "a", "d", "-", "i", "d", "=", "\"", "1", "\"",
    ",", "c", "o", "r", "e", "=", "\"", "0", "\"">>

\* what may follow a class keyword: nothing, a lone comma, fields
FieldTails ==
    {<<>>, <<",">>, TailThreadAll, TailOpenFrame, TailMsg, TailTwoFields}

ClassRunning == <<"r", "u", "n", "n", "i", "n", "g">>

ClassExit == <<"e", "x", "i", "t">>

RunningRecords ==
    {<<sigil>> \o ClassRunning \o tail :
         sigil \in {"*", "^"}, tail \in FieldTails}

ExitRecords == {<<"^">> \o ClassExit \o tail : tail \in FieldTails}

ClassError == <<"e", "r", "r", "o", "r">>

ErrorTail1 ==
    <<",", "m", "s", "g", "=", "\"", "N", "o", " ", "s", "y", "m", "b", "o",
    "l", " ", "t", "a", "b", "l", "e", "\"">>

ErrorText1 ==
    <<"N", "o", " ", "s", "y", "m", "b", "o", "l", " ", "t", "a", "b", "l",
    "e">>

ErrorTail2 ==
    <<",", "m", "s", "g", "=", "\"", "a", " ", "\\", "\"", "b", "\\", "\"",
    "\\", "n", "\"">>

ErrorText2 == <<"a", " ", "\"", "b", "\"", "\n">>

ErrorTail3 ==
    <<",", "m", "s", "g", "=", "\"", "x", "\"", ",", "c", "o", "d", "e", "=",
    "\"", "u", "n", "d", "e", "f", "i", "n", "e", "d", "-", "c", "o", "m",
    "m", "a", "n", "d", "\"">>

ErrorText3 == <<"x">>

ErrorTail4 == <<",", "m", "s", "g", "=", "\"", "\"">>

ErrorText4 == <<>>

ErrorTailNoMsg1 == <<>>

ErrorTailNoMsg2 == <<",">>

ErrorTailNoMsg3 ==
    <<",", "c", "o", "d", "e", "=", "\"", "u", "n", "d", "e", "f", "i", "n",
    "e", "d", "-", "c", "o", "m", "m", "a", "n", "d", "\"">>

\* a msg field whose quote is never closed
ErrorTailOpenMsg == <<",", "m", "s", "g", "=", "\"", "a", "b", "c">>

\* the tails of `^error` records that carry a msg field, with the text
\* of that field
ErrorCases ==
    {<<ErrorTail1, ErrorText1>>, <<ErrorTail2, ErrorText2>>,
     <<ErrorTail3, ErrorText3>>, <<ErrorTail4, ErrorText4>>}

\* the tails of `^error` records that carry no msg field
ErrorTailsNoMsg == {ErrorTailNoMsg1, ErrorTailNoMsg2, ErrorTailNoMsg3}

ErrorRecords ==
    {<<"^">> \o ClassError \o tail :
         tail \in {c[1] : c \in ErrorCases} \cup ErrorTailsNoMsg
                  \cup {ErrorTailOpenMsg}}

\* the longest text carried by a stream record
MaxText == 3

\* the characters of the texts: a plain one and the four with an escape
TextChars == {"n", "\n", "\t", "\"", "\\"}

Texts == UNION {[1..n -> TextChars] : n \in 0..MaxText}

\* a character as GDB/MI writes it inside a quoted string
escape_char(c) ==
    CASE c = "\n" -> <<"\\", "n">>
      [] c = "\t" -> <<"\\", "t">>
      [] c = "\"" -> <<"\\", "\"">>
      [] c = "\\" -> <<"\\", "\\">>
      [] OTHER -> <<c>>

RECURSIVE escape(_)
\* a text as GDB/MI writes it inside a quoted string
escape(text) ==
    IF text = <<>> THEN <<>>
    ELSE escape_char(Head(text)) \o escape(Tail(text))

\* the stream record of a sigil and a text: sigil, quote, escaped text, quote
stream_record(sigil, text) == <<sigil, "\"">> \o escape(text) \o <<"\"">>

\* every stream record with its sigil and its text
StreamCases ==
    {<<stream_record(sigil, text), sigil, text>> :
         sigil \in {"~", "@"}, text \in Texts}

StreamRecords == {c[1] : c \in StreamCases}

\* the parts of `*stopped` records, each with the value it stands for

StoppedHead == <<"*", "s", "t", "o", "p", "p", "e", "d">>

ReasonHit3 ==
    <<",", "r", "e", "a", "s", "o", "n", "=", "\"", "b", "r", "e", "a", "k",
    "p", "o", "i", "n", "t", "-", "h", "i", "t", "\"", ",", "d", "i", "s",
    "p", "=", "\"", "k", "e", "e", "p", "\"", ",", "b", "k", "p", "t", "n",
    "o", "=", "\"", "3", "\"">>

Thread2 ==
    <<",", "t", "h", "r", "e", "a", "d", "-", "i", "d", "=", "\"", "2",
    "\"">>

Thread15 ==
    <<",", "t", "h", "r", "e", "a", "d", "-", "i", "d", "=", "\"", "1", "5",
    "\"">>

FrameOpen == <<",", "f", "r", "a", "m", "e", "=", "{">>

AddrHex ==
    <<"a", "d", "d", "r", "=", "\"", "0", "x", "4", "0", "0", "5", "f", "6",
    "\"">>

AddrBare == <<"a", "d", "d", "r", "=", "\"", "1", "f", "\"">>

FuncMain == <<",", "f", "u", "n", "c", "=", "\"", "m", "a", "i", "n", "\"">>

TextMain == <<"m", "a", "i", "n">>

FileBoth ==
    <<",", "f", "i", "l", "e", "=", "\"", "m", "a", "i", "n", ".", "c", "\"",
    ",", "f", "u", "l", "l", "n", "a", "m", "e", "=", "\"", "/", "a", "/",
    "m", "a", "i", "n", ".", "c", "\"">>

FileOnly ==
    <<",", "f", "i", "l", "e", "=", "\"", "m", "a", "i", "n", ".", "c",
    "\"">>

FullnameOnly ==
    <<",", "f", "u", "l", "l", "n", "a", "m", "e", "=", "\"", "/", "a", "/",
    "m", "a", "i", "n", ".", "c", "\"">>

TextFile == <<"m", "a", "i", "n", ".", "c">>

TextFullname == <<"/", "a", "/", "m", "a", "i", "n", ".", "c">>

Line10Close == <<",", "l", "i", "n", "e", "=", "\"", "1", "0", "\"", "}">>

ThreadFields == {<<Thread2, 2>>, <<Thread15, 15>>}

\* 0x4005f6 = 4195830, 1f = 31
AddrFields == {<<AddrHex, 4195830>>, <<AddrBare, 31>>}

FileFields ==
    {<<FileBoth, Some(TextFullname)>>, <<FileOnly, Some(TextFile)>>,
     <<FullnameOnly, Some(TextFullname)>>, <<<<>>, None>>}

\* the frame written by addr, func, file and line fields
frame_of(addr, file) ==
    [addr |-> addr[2], function |-> TextMain, file |-> file[2],
     line |-> Some(10)]

\* a `*stopped` record with its thread-id field before or after the frame
\* block, and the pause it describes
stopped_case(reason, thread, addr, file, thread_first) ==
    <<StoppedHead \o reason[1]
        \o (IF thread_first THEN thread[1] ELSE <<>>)
        \o FrameOpen \o addr[1] \o FuncMain \o file[1] \o Line10Close
        \o (IF thread_first THEN <<>> ELSE thread[1]),
      [thread_id |-> thread[2],
       frame |-> frame_of(addr, file),
       stack |-> <<frame_of(addr, file)>>,
       stop_reason |-> reason[2]]>>

FrameCases ==
    {stopped_case(<<ReasonHit3, BreakpointHit(3)>>, thread, addr, file,
                  thread_first) :
         thread \in ThreadFields, addr \in AddrFields, file \in FileFields,
         thread_first \in BOOLEAN}

StoppedRecords == {c[1] : c \in FrameCases}

ReasonHitNoNumber ==
    <<",", "r", "e", "a", "s", "o", "n", "=", "\"", "b", "r", "e", "a", "k",
    "p", "o", "i", "n", "t", "-", "h", "i", "t", "\"", ",", "d", "i", "s",
    "p", "=", "\"", "k", "e", "e", "p", "\"">>

ReasonHitBadNumber ==
    <<",", "r", "e", "a", "s", "o", "n", "=", "\"", "b", "r", "e", "a", "k",
    "p", "o", "i", "n", "t", "-", "h", "i", "t", "\"", ",", "b", "k", "p",
    "t", "n", "o", "=", "\"", "1", ".", "2", "\"">>

ReasonHitEmptyNumber ==
    <<",", "r", "e", "a", "s", "o", "n", "=", "\"", "b", "r", "e", "a", "k",
    "p", "o", "i", "n", "t", "-", "h", "i", "t", "\"", ",", "b", "k", "p",
    "t", "n", "o", "=", "\"", "\"">>

ReasonEndStepping ==
    <<",", "r", "e", "a", "s", "o", "n", "=", "\"", "e", "n", "d", "-", "s",
    "t", "e", "p", "p", "i", "n", "g", "-", "r", "a", "n", "g", "e", "\"">>

ReasonStepOver ==
    <<",", "r", "e", "a", "s", "o", "n", "=", "\"", "s", "t", "e", "p", "-",
    "o", "v", "e", "r", "-", "r", "a", "n", "g", "e", "\"">>

ReasonSignal ==
    <<",", "r", "e", "a", "s", "o", "n", "=", "\"", "s", "i", "g", "n", "a",
    "l", "-", "r", "e", "c", "e", "i", "v", "e", "d", "\"", ",", "s", "i",
    "g", "n", "a", "l", "-", "n", "a", "m", "e", "=", "\"", "S", "I", "G",
    "S", "E", "G", "V", "\"", ",", "s", "i", "g", "n", "a", "l", "-", "m",
    "e", "a", "n", "i", "n", "g", "=", "\"", "S", "e", "g", "m", "e", "n",
    "t", "a", "t", "i", "o", "n", " ", "f", "a", "u", "l", "t", "\"">>

TextSigsegv == <<"S", "I", "G", "S", "E", "G", "V">>

ReasonSignalNoName ==
    <<",", "r", "e", "a", "s", "o", "n", "=", "\"", "s", "i", "g", "n", "a",
    "l", "-", "r", "e", "c", "e", "i", "v", "e", "d", "\"">>

\* a signal-name field whose quote is never closed
ReasonSignalOpenName ==
    <<",", "r", "e", "a", "s", "o", "n", "=", "\"", "s", "i", "g", "n", "a",
    "l", "-", "r", "e", "c", "e", "i", "v", "e", "d", "\"", ",", "s", "i",
    "g", "n", "a", "l", "-", "n", "a", "m", "e", "=", "\"", "S", "I", "G">>

ReasonOther ==
    <<",", "r", "e", "a", "s", "o", "n", "=", "\"", "f", "u", "n", "c", "t",
    "i", "o", "n", "-", "f", "i", "n", "i", "s", "h", "e", "d", "\"">>

ReasonEmpty == <<",", "r", "e", "a", "s", "o", "n", "=", "\"", "\"">>

\* the reason fields of a stop record, each with the StopReason it names;
\* the empty text is the record without a reason field
ReasonFields ==
    {<<ReasonHit3, BreakpointHit(3)>>,
     <<ReasonHitNoNumber, BreakpointHit(0)>>,
     <<ReasonHitBadNumber, BreakpointHit(0)>>,
     <<ReasonHitEmptyNumber, BreakpointHit(0)>>,
     <<ReasonEndStepping, EndStepping>>,
     <<ReasonStepOver, EndStepping>>,
     <<ReasonSignal, Signal(TextSigsegv)>>,
     <<ReasonSignalNoName, Signal(<<>>)>>,
     <<ReasonOther, Unknown>>,
     <<ReasonEmpty, Unknown>>,
     <<<<>>, Unknown>>}

ReasonCases ==
    {stopped_case(reason, <<Thread2, 2>>, <<AddrHex, 4195830>>,
                  <<FileBoth, Some(TextFullname)>>, FALSE) :
         reason \in ReasonFields}

\* a stop record whose signal-name runs into the fields behind it
OpenNameRecord ==
    stopped_case(<<ReasonSignalOpenName, Unknown>>, <<Thread2, 2>>,
                 <<AddrHex, 4195830>>, <<FileBoth, Some(TextFullname)>>,
                 FALSE)[1]

ReasonRecords == {c[1] : c \in ReasonCases} \cup {OpenNameRecord}

\* the payloads of `^done` records, each with whether it is present and
\* the value it carries

DoneHead == <<"^", "d", "o", "n", "e">>

PayloadBkpt ==
    <<",", "b", "k", "p", "t", "=", "{", "n", "u", "m", "b", "e", "r", "=",
    "\"", "1", "\"", ",", "t", "y", "p", "e", "=", "\"", "b", "r", "e", "a",
    "k", "p", "o", "i", "n", "t", "\"", ",", "e", "n", "a", "b", "l", "e",
    "d", "=", "\"", "n", "\"", ",", "f", "i", "l", "e", "=", "\"", "a", ".",
    "c", "\"", ",", "f", "u", "l", "l", "n", "a", "m", "e", "=", "\"", "/",
    "w", "/", "a", ".", "c", "\"", ",", "l", "i", "n", "e", "=", "\"", "1",
    "0", "\"", "}">>

TextBkptFile == <<"/", "w", "/", "a", ".", "c">>

PayloadNoVars ==
    <<",", "v", "a", "r", "i", "a", "b", "l", "e", "s", "=", "[", "]">>

PayloadVars ==
    <<",", "v", "a", "r", "i", "a", "b", "l", "e", "s", "=", "[", "{", "n",
    "a", "m", "e", "=", "\"", "x", "\"", ",", "t", "y", "p", "e", "=", "\"",
    "i", "n", "t", "\"", ",", "v", "a", "l", "u", "e", "=", "\"", "1", "\"",
    "}", "]">>

PayloadNoNames ==
    <<",", "r", "e", "g", "i", "s", "t", "e", "r", "-", "n", "a", "m", "e",
    "s", "=", "[", "]">>

PayloadNames ==
    <<",", "r", "e", "g", "i", "s", "t", "e", "r", "-", "n", "a", "m", "e",
    "s", "=", "[", "\"", "r", "a", "x", "\"", ",", "\"", "r", "b", "x", "\"",
    "]">>

PayloadNoRegs ==
    <<",", "r", "e", "g", "i", "s", "t", "e", "r", "-", "v", "a", "l", "u",
    "e", "s", "=", "[", "]">>

PayloadRegs ==
    <<",", "r", "e", "g", "i", "s", "t", "e", "r", "-", "v", "a", "l", "u",
    "e", "s", "=", "[", "{", "n", "u", "m", "b", "e", "r", "=", "\"", "0",
    "\"", ",", "v", "a", "l", "u", "e", "=", "\"", "0", "x", "1", "\"", "}",
    "]">>

PayloadNoAsm ==
    <<",", "a", "s", "m", "_", "i", "n", "s", "n", "s", "=", "[", "]">>

PayloadAsm ==
    <<",", "a", "s", "m", "_", "i", "n", "s", "n", "s", "=", "[", "{", "a",
    "d", "d", "r", "e", "s", "s", "=", "\"", "0", "x", "1", "0", "\"", ",",
    "f", "u", "n", "c", "-", "n", "a", "m", "e", "=", "\"", "m", "a", "i",
    "n", "\"", ",", "o", "f", "f", "s", "e", "t", "=", "\"", "4", "\"", ",",
    "i", "n", "s", "t", "=", "\"", "n", "o", "p", "\"", "}", "]">>

BkptPayloads ==
    {<<<<>>, FALSE, <<>>>>,
     <<PayloadBkpt, TRUE,
       [id |-> 1, file |-> TextBkptFile, line |-> 10, enabled |-> FALSE]>>}

VarsPayloads ==
    {<<<<>>, FALSE, <<>>>>,
     <<PayloadNoVars, TRUE, <<>>>>,
     <<PayloadVars, TRUE,
       <<[name |-> <<"x">>, value |-> <<"1">>, type_ |-> <<"i", "n", "t">>]>>>>}

NamesPayloads ==
    {<<<<>>, FALSE, <<>>>>,
     <<PayloadNoNames, TRUE, <<>>>>,
     <<PayloadNames, TRUE, <<<<"r", "a", "x">>, <<"r", "b", "x">>>>>>}

RegsPayloads ==
    {<<<<>>, FALSE, <<>>>>,
     <<PayloadNoRegs, TRUE, <<>>>>,
     <<PayloadRegs, TRUE,
       <<[number |-> 0, name |-> <<>>, value |-> <<"0", "x", "1">>]>>>>}

AsmPayloads ==
    {<<<<>>, FALSE, <<>>>>,
     <<PayloadNoAsm, TRUE, <<>>>>,
     <<PayloadAsm, TRUE,
       <<[addr |-> 16, offset |-> 4, inst |-> <<"n", "o", "p">>,
          current |-> FALSE]>>>>}

\* the event of the first payload present, in the order breakpoint,
\* variables, register names, register values, disassembly
first_payload_event(bkpt, vars_, names, regs, asm) ==
    IF bkpt[2] THEN Some(State(BreakpointAdded(bkpt[3])))
    ELSE IF vars_[2] /\ vars_[3] # <<>>
    THEN Some(State(LocalsUpdated(vars_[3])))
    ELSE IF names[2] THEN Some(State(RegisterNamesReceived(names[3])))
    ELSE IF regs[2] /\ regs[3] # <<>>
    THEN Some(State(RegistersUpdated(regs[3])))
    ELSE IF asm[2] /\ asm[3] # <<>>
    THEN Some(State(DisasmUpdated(asm[3])))
    ELSE None

\* a `^done` record with its payloads written in the order of the
\* priorities or in the opposite order, and the event it stands for
done_case(bkpt, vars_, names, regs, asm, backwards) ==
    <<DoneHead \o (IF backwards
                   THEN asm[1] \o regs[1] \o names[1] \o vars_[1] \o bkpt[1]
                   ELSE bkpt[1] \o vars_[1] \o names[1] \o regs[1] \o asm[1]),
      first_payload_event(bkpt, vars_, names, regs, asm)>>

DoneCases ==
    {done_case(bkpt, vars_, names, regs, asm, backwards) :
         bkpt \in BkptPayloads, vars_ \in VarsPayloads,
         names \in NamesPayloads, regs \in RegsPayloads,
         asm \in AsmPayloads, backwards \in BOOLEAN}

DoneRecords == {c[1] : c \in DoneCases}

\* quoted values as they are written in a record, each with its text

WrittenPlain == <<"x">>

WrittenOpenBrace == <<"{">>

WrittenCloseBrace == <<"}">>

WrittenOpenBracket == <<"[">>

WrittenCloseBracket == <<"]">>

WrittenComma == <<",">>

WrittenQuote == <<"\\", "\"">>

TextQuote == <<"\"">>

WrittenNested == <<"{", "a", ",", "[", "b", "]", "}">>

WrittenMixed == <<"}", "]", "\\", "\"", ",", "{", "[">>

TextMixed == <<"}", "]", "\"", ",", "{", "[">>

WrittenFrameKey == <<"f", "r", "a", "m", "e", "=", "{">>

\* the values a field may carry: a plain one, then values holding braces,
\* brackets, commas, an escaped quote, and the opening of a frame block
QuotedValues ==
    {<<WrittenPlain, WrittenPlain>>,
     <<WrittenOpenBrace, WrittenOpenBrace>>,
     <<WrittenCloseBrace, WrittenCloseBrace>>,
     <<WrittenOpenBracket, WrittenOpenBracket>>,
     <<WrittenCloseBracket, WrittenCloseBracket>>,
     <<WrittenComma, WrittenComma>>,
     <<WrittenQuote, TextQuote>>,
     <<WrittenNested, WrittenNested>>,
     <<WrittenMixed, TextMixed>>,
     <<WrittenFrameKey, WrittenFrameKey>>}

ReasonOpen == <<",", "r", "e", "a", "s", "o", "n", "=", "\"">>

QuoteClose == <<"\"">>

FramePlain ==
    <<",", "f", "r", "a", "m", "e", "=", "{", "a", "d", "d", "r", "=", "\"",
    "0", "x", "1", "0", "\"", ",", "f", "u", "n", "c", "=", "\"", "f", "\"",
    ",", "l", "i", "n", "e", "=", "\"", "7", "\"", "}">>

FrameToFunc ==
    <<",", "f", "r", "a", "m", "e", "=", "{", "a", "d", "d", "r", "=", "\"",
    "0", "x", "1", "0", "\"", ",", "f", "u", "n", "c", "=", "\"">>

FrameAfterFunc == <<"\"", ",", "l", "i", "n", "e", "=", "\"", "7", "\"", "}">>

VarsToValue ==
    <<"^", "d", "o", "n", "e", ",", "v", "a", "r", "i", "a", "b", "l", "e",
    "s", "=", "[", "{", "n", "a", "m", "e", "=", "\"", "s", "\"", ",", "v",
    "a", "l", "u", "e", "=", "\"">>

VarsAfterValue ==
    <<"\"", "}", ",", "{", "n", "a", "m", "e", "=", "\"", "t", "\"", ",",
    "v", "a", "l", "u", "e", "=", "\"", "2", "\"", "}", "]">>


\* the pause of a stop record with an unknown reason, thread-id 2 and the
\* frame addr 0x10, line 7 of the function
noise_pause(function) ==
    [thread_id |-> 2,
     frame |-> [addr |-> 16, function |-> function, file |-> None,
                line |-> Some(7)],
     stack |-> <<[addr |-> 16, function |-> function, file |-> None,
                  line |-> Some(7)]>>,
     stop_reason |-> Unknown]

\* the value as the reason of a stop record, in front of the frame block
reason_case(value) ==
    <<StoppedHead \o ReasonOpen \o value[1] \o QuoteClose \o FramePlain
        \o Thread2,
      Some(State(ProgramPaused(noise_pause(<<"f">>))))>>

\* the value as the func of the frame block, between addr and line
func_case(value) ==
    <<StoppedHead \o FrameToFunc \o value[1] \o FrameAfterFunc \o Thread2,
      Some(State(ProgramPaused(noise_pause(value[2]))))>>

\* the value as the value of the first of two variables
value_case(value) ==
    <<VarsToValue \o value[1] \o VarsAfterValue,
      Some(State(LocalsUpdated(
          <<[name |-> <<"s">>, value |-> value[2], type_ |-> <<>>],
            [name |-> <<"t">>, value |-> <<"2">>, type_ |-> <<>>]>>)))>>

NoiseCases ==
    {reason_case(value) : value \in QuotedValues}
    \cup {func_case(value) : value \in QuotedValues}
    \cup {value_case(value) : value \in QuotedValues}

NoiseRecords == {c[1] : c \in NoiseCases}

\* `^done` records whose list holds two blocks, or the fields of one
\* record without braces around them, each with the records it lists

VarsTwoBlocks ==
    <<"^", "d", "o", "n", "e", ",", "v", "a", "r", "i", "a", "b", "l", "e",
    "s", "=", "[", "{", "n", "a", "m", "e", "=", "\"", "x", "\"", ",", "v",
    "a", "l", "u", "e", "=", "\"", "1", "\"", "}", ",", "{", "n", "a", "m",
    "e", "=", "\"", "y", "\"", ",", "v", "a", "l", "u", "e", "=", "\"", "2",
    "\"", "}", "]">>

VarsBareInBraces ==
    <<"^", "d", "o", "n", "e", ",", "v", "a", "r", "i", "a", "b", "l", "e",
    "s", "=", "{", "n", "a", "m", "e", "=", "\"", "x", "\"", ",", "v", "a",
    "l", "u", "e", "=", "\"", "1", "\"", "}">>

VarsBareInBrackets ==
    <<"^", "d", "o", "n", "e", ",", "v", "a", "r", "i", "a", "b", "l", "e",
    "s", "=", "[", "n", "a", "m", "e", "=", "\"", "x", "\"", ",", "v", "a",
    "l", "u", "e", "=", "\"", "1", "\"", "]">>

RegsTwoBlocks ==
    <<"^", "d", "o", "n", "e", ",", "r", "e", "g", "i", "s", "t", "e", "r",
    "-", "v", "a", "l", "u", "e", "s", "=", "[", "{", "n", "u", "m", "b",
    "e", "r", "=", "\"", "0", "\"", ",", "v", "a", "l", "u", "e", "=", "\"",
    "0", "x", "1", "\"", "}", ",", "{", "n", "u", "m", "b", "e", "r", "=",
    "\"", "1", "\"", ",", "v", "a", "l", "u", "e", "=", "\"", "0", "x", "2",
    "\"", "}", "]">>

RegsBareInBraces ==
    <<"^", "d", "o", "n", "e", ",", "r", "e", "g", "i", "s", "t", "e", "r",
    "-", "v", "a", "l", "u", "e", "s", "=", "{", "n", "u", "m", "b", "e",
    "r", "=", "\"", "0", "\"", ",", "v", "a", "l", "u", "e", "=", "\"", "0",
    "x", "1", "\"", "}">>

RegsBareInBrackets ==
    <<"^", "d", "o", "n", "e", ",", "r", "e", "g", "i", "s", "t", "e", "r",
    "-", "v", "a", "l", "u", "e", "s", "=", "[", "n", "u", "m", "b", "e",
    "r", "=", "\"", "0", "\"", ",", "v", "a", "l", "u", "e", "=", "\"", "0",
    "x", "1", "\"", "]">>

AsmTwoBlocks ==
    <<"^", "d", "o", "n", "e", ",", "a", "s", "m", "_", "i", "n", "s", "n",
    "s", "=", "[", "{", "a", "d", "d", "r", "e", "s", "s", "=", "\"", "0",
    "x", "1", "0", "\"", ",", "i", "n", "s", "t", "=", "\"", "n", "o", "p",
    "\"", "}", ",", "{", "a", "d", "d", "r", "e", "s", "s", "=", "\"", "0",
    "x", "1", "1", "\"", ",", "o", "f", "f", "s", "e", "t", "=", "\"", "1",
    "\"", ",", "i", "n", "s", "t", "=", "\"", "r", "e", "t", "\"", "}",
    "]">>

AsmBareInBraces ==
    <<"^", "d", "o", "n", "e", ",", "a", "s", "m", "_", "i", "n", "s", "n",
    "s", "=", "{", "a", "d", "d", "r", "e", "s", "s", "=", "\"", "0", "x",
    "1", "0", "\"", ",", "i", "n", "s", "t", "=", "\"", "n", "o", "p", "\"",
    "}">>

AsmBareInBrackets ==
    <<"^", "d", "o", "n", "e", ",", "a", "s", "m", "_", "i", "n", "s", "n",
    "s", "=", "[", "a", "d", "d", "r", "e", "s", "s", "=", "\"", "0", "x",
    "1", "0", "\"", ",", "i", "n", "s", "t", "=", "\"", "n", "o", "p", "\"",
    "]">>

ListedVarX == [name |-> <<"x">>, value |-> <<"1">>, type_ |-> <<>>]

ListedVarY == [name |-> <<"y">>, value |-> <<"2">>, type_ |-> <<>>]

ListedReg0 == [number |-> 0, name |-> <<>>, value |-> <<"0", "x", "1">>]

ListedReg1 == [number |-> 1, name |-> <<>>, value |-> <<"0", "x", "2">>]

ListedNop ==
    [addr |-> 16, offset |-> 0, inst |-> <<"n", "o", "p">>, current |-> FALSE]

ListedRet ==
    [addr |-> 17, offset |-> 1, inst |-> <<"r", "e", "t">>, current |-> FALSE]

\* one record per block of a list that holds blocks
BlockListCases ==
    {<<VarsTwoBlocks, Some(State(LocalsUpdated(<<ListedVarX, ListedVarY>>)))>>,
     <<RegsTwoBlocks,
       Some(State(RegistersUpdated(<<ListedReg0, ListedReg1>>)))>>,
     <<AsmTwoBlocks, Some(State(DisasmUpdated(<<ListedNop, ListedRet>>)))>>}

\* the whole text as one record when the list holds no `{`
BareVariableCases ==
    {<<VarsBareInBraces, Some(State(LocalsUpdated(<<ListedVarX>>)))>>,
     <<VarsBareInBrackets, Some(State(LocalsUpdated(<<ListedVarX>>)))>>}

BareListCases ==
    BareVariableCases
    \cup {<<RegsBareInBraces, Some(State(RegistersUpdated(<<ListedReg0>>)))>>,
          <<RegsBareInBrackets,
            Some(State(RegistersUpdated(<<ListedReg0>>)))>>,
          <<AsmBareInBraces, Some(State(DisasmUpdated(<<ListedNop>>)))>>,
          <<AsmBareInBrackets, Some(State(DisasmUpdated(<<ListedNop>>)))>>}

ListRecords == {c[1] : c \in BlockListCases \cup BareListCases}

\* ---- records with missing or malformed fields ----

\* a breakpoint block without `file` and `fullname`
BkptNoFile ==
    <<"=", "b", "r", "e", "a", "k", "p", "o", "i", "n", "t", "-", "c", "r",
    "e", "a", "t", "e", "d", ",", "b", "k", "p", "t", "=", "{", "n", "u",
    "m", "b", "e", "r", "=", "\"", "1", "\"", ",", "l", "i", "n", "e", "=",
    "\"", "1", "0", "\"", "}">>

\* the block of a pending breakpoint: no `file`, no `fullname`, no `line`
BkptPendingNoFile ==
    <<"^", "d", "o", "n", "e", ",", "b", "k", "p", "t", "=", "{", "n", "u",
    "m", "b", "e", "r", "=", "\"", "1", "\"", ",", "t", "y", "p", "e", "=",
    "\"", "b", "r", "e", "a", "k", "p", "o", "i", "n", "t", "\"", ",", "a",
    "d", "d", "r", "=", "\"", "<", "P", "E", "N", "D", "I", "N", "G", ">",
    "\"", ",", "p", "e", "n", "d", "i", "n", "g", "=", "\"", "f", ".", "c",
    ":", "1", "0", "\"", ",", "e", "n", "a", "b", "l", "e", "d", "=", "\"",
    "y", "\"", "}">>

\* a breakpoint block whose `number` is not a number
BkptBadNumber ==
    <<"=", "b", "r", "e", "a", "k", "p", "o", "i", "n", "t", "-", "c", "r",
    "e", "a", "t", "e", "d", ",", "b", "k", "p", "t", "=", "{", "n", "u",
    "m", "b", "e", "r", "=", "\"", "x", "\"", ",", "f", "i", "l", "e", "=",
    "\"", "a", ".", "c", "\"", ",", "l", "i", "n", "e", "=", "\"", "1", "0",
    "\"", "}">>

\* a breakpoint block whose `line` is not a number
BkptBadLine ==
    <<"^", "d", "o", "n", "e", ",", "b", "k", "p", "t", "=", "{", "n", "u",
    "m", "b", "e", "r", "=", "\"", "1", "\"", ",", "f", "i", "l", "e", "=",
    "\"", "a", ".", "c", "\"", ",", "l", "i", "n", "e", "=", "\"", "z", "z",
    "\"", ",", "e", "n", "a", "b", "l", "e", "d", "=", "\"", "n", "\"",
    "}">>

\* a breakpoint block with nothing but the file
BkptOnlyFile ==
    <<"=", "b", "r", "e", "a", "k", "p", "o", "i", "n", "t", "-", "m", "o",
    "d", "i", "f", "i", "e", "d", ",", "b", "k", "p", "t", "=", "{", "f",
    "u", "l", "l", "n", "a", "m", "e", "=", "\"", "/", "a", ".", "c", "\"",
    "}">>

\* a frame without address, file and line
FrameOnlyFunc ==
    <<"*", "s", "t", "o", "p", "p", "e", "d", ",", "f", "r", "a", "m", "e",
    "=", "{", "f", "u", "n", "c", "=", "\"", "f", "\"", "}">>

\* a frame whose address and line are not numbers
FrameBadAddr ==
    <<"*", "s", "t", "o", "p", "p", "e", "d", ",", "f", "r", "a", "m", "e",
    "=", "{", "a", "d", "d", "r", "=", "\"", "z", "z", "\"", ",", "f", "u",
    "n", "c", "=", "\"", "f", "\"", ",", "l", "i", "n", "e", "=", "\"", "q",
    "\"", "}">>

\* a variable without value and type
VarOnlyName ==
    <<"^", "d", "o", "n", "e", ",", "v", "a", "r", "i", "a", "b", "l", "e",
    "s", "=", "[", "{", "n", "a", "m", "e", "=", "\"", "x", "\"", "}", "]">>

\* a variable with an empty name in front of a named one
VarEmptyName ==
    <<"^", "d", "o", "n", "e", ",", "v", "a", "r", "i", "a", "b", "l", "e",
    "s", "=", "[", "{", "n", "a", "m", "e", "=", "\"", "\"", ",", "v", "a",
    "l", "u", "e", "=", "\"", "1", "\"", "}", ",", "{", "n", "a", "m", "e",
    "=", "\"", "x", "\"", ",", "v", "a", "l", "u", "e", "=", "\"", "1", "\"",
    "}", "]">>

\* a register without number
RegNoNumber ==
    <<"^", "d", "o", "n", "e", ",", "r", "e", "g", "i", "s", "t", "e", "r",
    "-", "v", "a", "l", "u", "e", "s", "=", "[", "{", "v", "a", "l", "u",
    "e", "=", "\"", "0", "x", "1", "\"", "}", "]">>

\* a register whose number is not a number, without value
RegBadNumber ==
    <<"^", "d", "o", "n", "e", ",", "r", "e", "g", "i", "s", "t", "e", "r",
    "-", "v", "a", "l", "u", "e", "s", "=", "[", "{", "n", "u", "m", "b",
    "e", "r", "=", "\"", "q", "\"", "}", "]">>

\* a disassembly line without address and offset
AsmOnlyInst ==
    <<"^", "d", "o", "n", "e", ",", "a", "s", "m", "_", "i", "n", "s", "n",
    "s", "=", "[", "{", "i", "n", "s", "t", "=", "\"", "n", "o", "p", "\"",
    "}", "]">>

\* a disassembly line whose address and offset are not numbers, without instruction
AsmBadAddress ==
    <<"^", "d", "o", "n", "e", ",", "a", "s", "m", "_", "i", "n", "s", "n",
    "s", "=", "[", "{", "a", "d", "d", "r", "e", "s", "s", "=", "\"", "z",
    "z", "\"", ",", "o", "f", "f", "s", "e", "t", "=", "\"", "q", "\"", "}",
    "]">>

\* the frame of FrameOnlyFunc and FrameBadAddr
DefaultFrame ==
    [addr |-> 0, function |-> <<"f">>, file |-> None, line |-> None]

DefaultPause ==
    [thread_id |-> 1, frame |-> DefaultFrame, stack |-> <<DefaultFrame>>,
     stop_reason |-> Unknown]

\* the records whose breakpoint block names no file, each with the
\* breakpoint whose file is the empty string
NoFileCases ==
    {<<BkptNoFile,
       Some(State(BreakpointAdded(
           [id |-> 1, file |-> <<>>, line |-> 10, enabled |-> TRUE])))>>,
     <<BkptPendingNoFile,
       Some(State(BreakpointAdded(
           [id |-> 1, file |-> <<>>, line |-> 0, enabled |-> TRUE])))>>}

\* the records with a missing or malformed field other than the file of a
\* breakpoint, each with the event that holds the default in its place
DefaultedCases ==
    {<<BkptBadNumber,
       Some(State(BreakpointAdded(
           [id |-> 0, file |-> <<"a", ".", "c">>, line |-> 10,
            enabled |-> TRUE])))>>,
     <<BkptBadLine,
       Some(State(BreakpointAdded(
           [id |-> 1, file |-> <<"a", ".", "c">>, line |-> 0,
            enabled |-> FALSE])))>>,
     <<BkptOnlyFile,
       Some(State(BreakpointAdded(
           [id |-> 0, file |-> <<"/", "a", ".", "c">>, line |-> 0,
            enabled |-> TRUE])))>>,
     <<FrameOnlyFunc, Some(State(ProgramPaused(DefaultPause)))>>,
     <<FrameBadAddr, Some(State(ProgramPaused(DefaultPause)))>>,
     <<VarOnlyName,
       Some(State(LocalsUpdated(
           <<[name |-> <<"x">>, value |-> <<>>, type_ |-> <<>>]>>)))>>,
     <<VarEmptyName, Some(State(LocalsUpdated(<<ListedVarX>>)))>>,
     <<RegNoNumber, Some(State(RegistersUpdated(<<ListedReg0>>)))>>,
     <<RegBadNumber,
       Some(State(RegistersUpdated(
           <<[number |-> 0, name |-> <<>>, value |-> <<>>]>>)))>>,
     <<AsmOnlyInst,
       Some(State(DisasmUpdated(
           <<[addr |-> 0, offset |-> 0, inst |-> <<"n", "o", "p">>,
              current |-> FALSE]>>)))>>,
     <<AsmBadAddress,
       Some(State(DisasmUpdated(
           <<[addr |-> 0, offset |-> 0, inst |-> <<>>,
              current |-> FALSE]>>)))>>}

DefaultRecords == {c[1] : c \in NoFileCases \cup DefaultedCases}

\* ---- records with a key that ends in the key looked for ----

\* `thread-id` in front of `id`
DeletedAfterThreadId ==
    <<"=", "b", "r", "e", "a", "k", "p", "o", "i", "n", "t", "-", "d", "e",
    "l", "e", "t", "e", "d", ",", "t", "h", "r", "e", "a", "d", "-", "i",
    "d", "=", "\"", "2", "\"", ",", "i", "d", "=", "\"", "5", "\"">>

\* `id` in front of `thread-id`
DeletedBeforeThreadId ==
    <<"=", "b", "r", "e", "a", "k", "p", "o", "i", "n", "t", "-", "d", "e",
    "l", "e", "t", "e", "d", ",", "i", "d", "=", "\"", "5", "\"", ",", "t",
    "h", "r", "e", "a", "d", "-", "i", "d", "=", "\"", "2", "\"">>

\* `signal-name` in front of `name`
VarAfterSignalName ==
    <<"^", "d", "o", "n", "e", ",", "v", "a", "r", "i", "a", "b", "l", "e",
    "s", "=", "[", "{", "s", "i", "g", "n", "a", "l", "-", "n", "a", "m",
    "e", "=", "\"", "S", "I", "G", "I", "N", "T", "\"", ",", "n", "a", "m",
    "e", "=", "\"", "x", "\"", ",", "v", "a", "l", "u", "e", "=", "\"", "1",
    "\"", "}", "]">>

\* `name` in front of `signal-name`
VarBeforeSignalName ==
    <<"^", "d", "o", "n", "e", ",", "v", "a", "r", "i", "a", "b", "l", "e",
    "s", "=", "[", "{", "n", "a", "m", "e", "=", "\"", "x", "\"", ",", "v",
    "a", "l", "u", "e", "=", "\"", "1", "\"", ",", "s", "i", "g", "n", "a",
    "l", "-", "n", "a", "m", "e", "=", "\"", "S", "I", "G", "I", "N", "T",
    "\"", "}", "]">>

\* `full-line` in front of `line`
BkptAfterFullLine ==
    <<"^", "d", "o", "n", "e", ",", "b", "k", "p", "t", "=", "{", "n", "u",
    "m", "b", "e", "r", "=", "\"", "1", "\"", ",", "f", "i", "l", "e", "=",
    "\"", "a", ".", "c", "\"", ",", "f", "u", "l", "l", "-", "l", "i", "n",
    "e", "=", "\"", "9", "9", "\"", ",", "l", "i", "n", "e", "=", "\"", "1",
    "0", "\"", "}">>

\* the records whose exact key comes after a key that ends in it, each with
\* the event built from the field of the exact key
SuffixFirstCases ==
    {<<DeletedAfterThreadId, Some(State(BreakpointRemoved(5)))>>,
     <<VarAfterSignalName, Some(State(LocalsUpdated(<<ListedVarX>>)))>>,
     <<BkptAfterFullLine,
       Some(State(BreakpointAdded(
           [id |-> 1, file |-> <<"a", ".", "c">>, line |-> 10,
            enabled |-> TRUE])))>>}

\* the same fields with the exact key in front
ExactFirstCases ==
    {<<DeletedBeforeThreadId, Some(State(BreakpointRemoved(5)))>>,
     <<VarBeforeSignalName, Some(State(LocalsUpdated(<<ListedVarX>>)))>>}

SuffixRecords == {c[1] : c \in SuffixFirstCases \cup ExactFirstCases}

EventRecords ==
    RunningRecords \cup ExitRecords \cup ErrorRecords \cup StreamRecords
    \cup StoppedRecords \cup ReasonRecords \cup DoneRecords \cup NoiseRecords
    \cup ListRecords \cup DefaultRecords \cup SuffixRecords

InitRecords ==
    /\ InitReducer
    /\ InitProcIdle
    /\ in_token \in RecordTokens
    /\ in_record \in EventRecords
    /\ stripped = <<>>
    /\ parsed = <<>>

SpecRecords == InitRecords /\ [][NextDecoder]_vars

\* ------------------------------------------------------------------------
\* gdb/process.rs: the supervisor

\* the most commands the consumer sends on the command channel
MaxCmds == 2

\* the most lines in flight between the subprocess and the control loop
MaxOut == 2

\* the most commands sent and lines in flight taken together
MaxTraffic == 3

ERR_SPAWN ==
    <<"N", "o", " ", "s", "e", " ", "p", "u", "d", "o", " ", "l", "a", "n",
    "z", "a", "r", " ", "G", "D", "B", ":", " ">>

ERR_READ ==
    <<"E", "r", "r", "o", "r", " ", "l", "e", "y", "e", "n", "d", "o", " ",
    "G", "D", "B", ":", " ">>

ERR_WRITE ==
    <<"E", "r", "r", "o", "r", " ", "e", "s", "c", "r", "i", "b", "i", "e",
    "n", "d", "o", " ", "a", " ", "G", "D", "B", ":", " ">>

ECHO_PREFIX == <<">", " ">>

\* the commands the consumer sends
Cmds == {Command_Run, Command_RemoveBreakpoint(2)}

\* what one read_line returns: a line of the subprocess with its terminator
RawLines ==
    {LineRunning \o <<"\r", "\n">>, PROMPT \o <<"\n">>, <<"\n">>}

\* the executable argument of run_loop
Executables == {None, Some(ExeA)}

RECURSIVE trim_end_matches(_, _)
\* str::trim_end_matches(char)
trim_end_matches(s, c) ==
    IF s # <<>> /\ s[Len(s)] = c
    THEN trim_end_matches(Upto(s, Len(s) - 1), c)
    ELSE s

\* the line the reader thread makes of what read_line returned
reader_line(buf) == trim_end_matches(trim_end_matches(buf, "\n"), "\r")

\* the commands sent so far and the lines emitted and not dropped
traffic == Len(sent) + Len(gdb_out) + Len(line_q) + Len(taken)

\* Sender::send on the event channel: the event is delivered while the
\* consumer holds the receiver, and the send fails once it is dropped
deliver(evs, event) == IF ui = "open" THEN Append(evs, event) ELSE evs

\* GdbWriter::send that does not advance the counter
send_keeps_seq(written, n, raw_mi) ==
    [stdin |-> Append(written, to_decimal(n) \o raw_mi \o <<"\n">>),
     seq |-> n]

\* GdbWriter::send when the write succeeds: the bytes written and the counter
send(written, n, raw_mi) ==
    [stdin |-> Append(written, to_decimal(n) \o raw_mi \o <<"\n">>),
     seq |-> n + 1]

\* a line channel that hands the newest line over first
forward_newest_first(queue, line) == <<line>> \o queue

\* Sender::send on the line channel: the channel is first in, first out
forward(queue, line) == Append(queue, line)

\* a control loop that echoes only the lines that parse
echo_line_if_parsed(evs, line) ==
    IF decoded(line) # None THEN deliver(evs, Ui(ConsoleOutput(line)))
    ELSE evs

\* the echo of a line taken from the line channel
echo_line(evs, line) == deliver(evs, Ui(ConsoleOutput(line)))

\* the start of run_loop sending ProgramLoaded whether or not an executable
\* was given
SpawnOkAlwaysLoaded(executable) ==
    /\ loop_pc = "idle"
    /\ child' = "alive"
    /\ seq' = 1
    /\ events' = deliver(events,
                         State(ProgramLoaded(unwrap_or(executable, <<>>))))
    /\ reader_pc' = "read"
    /\ loop_pc' = "cmds"
    /\ UNCHANGED <<cmd_q, sent, stdin, gdb_out, line_q, taken, ui>>
    /\ UNCHANGED <<reducerVars, decoderVars>>

\* spawn_gdb succeeds: the writer starts at 1, ProgramLoaded is sent when an
\* executable was given, the reader thread starts
SpawnOk(executable) ==
    /\ loop_pc = "idle"
    /\ child' = "alive"
    /\ seq' = 1
    /\ events' = IF executable # None
                 THEN deliver(events, State(ProgramLoaded(executable[1])))
                 ELSE events
    /\ reader_pc' = "read"
    /\ loop_pc' = "cmds"
    /\ UNCHANGED <<cmd_q, sent, stdin, gdb_out, line_q, taken, ui>>
    /\ UNCHANGED <<reducerVars, decoderVars>>

\* a failed spawn after which the reader thread is started all the same
SpawnFailStartsReader ==
    /\ loop_pc = "idle"
    /\ events' = deliver(events, Ui(GdbError(ERR_SPAWN)))
    /\ loop_pc' = "done"
    /\ reader_pc' = "read"
    /\ UNCHANGED <<cmd_q, sent, seq, stdin, gdb_out, line_q, taken, ui,
                   child>>
    /\ UNCHANGED <<reducerVars, decoderVars>>

\* spawn_gdb fails: one GdbError, and run_loop returns
SpawnFail ==
    /\ loop_pc = "idle"
    /\ events' = deliver(events, Ui(GdbError(ERR_SPAWN)))
    /\ loop_pc' = "done"
    /\ UNCHANGED <<cmd_q, sent, seq, stdin, gdb_out, line_q, taken, ui,
                   child, reader_pc>>
    /\ UNCHANGED <<reducerVars, decoderVars>>

\* the consumer sends a command on the command channel; the send fails once
\* run_loop has returned and dropped the receiver
SendCmd(cmd) ==
    /\ loop_pc # "done"
    /\ Len(sent) < MaxCmds
    /\ traffic < MaxTraffic
    /\ cmd_q' = Append(cmd_q, cmd)
    /\ sent' = Append(sent, cmd)
    /\ UNCHANGED <<seq, stdin, gdb_out, line_q, events, taken, ui, child,
                   loop_pc, reader_pc>>
    /\ UNCHANGED <<reducerVars, decoderVars>>

\* a command loop that reports a failed write and goes on with the next
\* command
LoopCommandGoesOn ==
    /\ loop_pc = "cmds"
    /\ cmd_q # <<>>
    /\ LET mi == command_to_mi(Head(cmd_q))
           echoed == deliver(events, Ui(ConsoleOutput(ECHO_PREFIX \o mi)))
           written == send(stdin, seq, mi)
       IN /\ cmd_q' = Tail(cmd_q)
          /\ IF child = "alive"
             THEN /\ stdin' = written.stdin
                  /\ seq' = written.seq
                  /\ events' = echoed
             ELSE /\ events' = deliver(echoed, Ui(GdbError(ERR_WRITE)))
                  /\ UNCHANGED <<stdin, seq>>
    /\ UNCHANGED <<sent, gdb_out, line_q, taken, ui, reader_pc, child,
                   loop_pc>>
    /\ UNCHANGED <<reducerVars, decoderVars>>

\* one turn of `while let Ok(cmd) = cmd_rx.try_recv()`: the echo, then the
\* write, which fails when the subprocess no longer reads its input
LoopCommand ==
    /\ loop_pc = "cmds"
    /\ cmd_q # <<>>
    /\ LET mi == command_to_mi(Head(cmd_q))
           echoed == deliver(events, Ui(ConsoleOutput(ECHO_PREFIX \o mi)))
           written == send(stdin, seq, mi)
       IN /\ cmd_q' = Tail(cmd_q)
          /\ IF child = "alive"
             THEN /\ stdin' = written.stdin
                  /\ seq' = written.seq
                  /\ events' = echoed
                  /\ UNCHANGED <<child, loop_pc>>
             ELSE /\ events' = deliver(echoed, Ui(GdbError(ERR_WRITE)))
                  /\ child' = "killed"
                  /\ loop_pc' = "done"
                  /\ UNCHANGED <<stdin, seq>>
    /\ UNCHANGED <<sent, gdb_out, line_q, taken, ui, reader_pc>>
    /\ UNCHANGED <<reducerVars, decoderVars>>

\* a control loop that goes on to the lines with commands still queued
LoopCommandsSkipped ==
    /\ loop_pc = "cmds"
    /\ loop_pc' = "lines"
    /\ UNCHANGED <<cmd_q, sent, seq, stdin, gdb_out, line_q, events, taken,
                   ui, child, reader_pc>>
    /\ UNCHANGED <<reducerVars, decoderVars>>

\* try_recv finds the command channel empty: on to the lines
LoopCommandsDone ==
    /\ loop_pc = "cmds"
    /\ cmd_q = <<>>
    /\ loop_pc' = "lines"
    /\ UNCHANGED <<cmd_q, sent, seq, stdin, gdb_out, line_q, events, taken,
                   ui, child, reader_pc>>
    /\ UNCHANGED <<reducerVars, decoderVars>>

\* one turn of `while let Ok(line) = line_rx.try_recv()`: the echo, then the
\* event of the line; a failed send of that event ends run_loop
LoopLine ==
    /\ loop_pc = "lines"
    /\ line_q # <<>>
    /\ LET line == Head(line_q)
           event == (CHOOSE d \in Decoded : d[1] = line)[2]
           echoed == echo_line(events, line)
       IN /\ line_q' = Tail(line_q)
          /\ taken' = Append(taken, line)
          /\ IF event # None /\ ui = "dropped"
             THEN /\ events' = echoed
                  /\ child' = "killed"
                  /\ loop_pc' = "done"
             ELSE /\ events' = IF event # None
                               THEN deliver(echoed, event[1])
                               ELSE echoed
                  /\ UNCHANGED <<child, loop_pc>>
    /\ UNCHANGED <<cmd_q, sent, seq, stdin, gdb_out, ui, reader_pc>>
    /\ UNCHANGED <<reducerVars, decoderVars>>

\* try_recv finds the line channel empty: sleep, then the next cycle
\* The drain written with a blocking recv: the control loop leaves the
\* line phase only once the line channel is disconnected.
LoopSleepUntilLine ==
    /\ loop_pc = "lines"
    /\ line_q = <<>>
    /\ reader_pc = "done"
    /\ loop_pc' = "cmds"
    /\ UNCHANGED <<cmd_q, sent, seq, stdin, gdb_out, line_q, events, taken,
                   ui, child, reader_pc>>
    /\ UNCHANGED <<reducerVars, decoderVars>>

LoopSleep ==
    /\ loop_pc = "lines"
    /\ line_q = <<>>
    /\ loop_pc' = "cmds"
    /\ UNCHANGED <<cmd_q, sent, seq, stdin, gdb_out, line_q, events, taken,
                   ui, child, reader_pc>>
    /\ UNCHANGED <<reducerVars, decoderVars>>

\* the subprocess writes a line to its standard output
GdbEmit(raw) ==
    /\ child = "alive"
    /\ Len(gdb_out) + Len(line_q) + Len(taken) < MaxOut
    /\ traffic < MaxTraffic
    /\ gdb_out' = Append(gdb_out, raw)
    /\ UNCHANGED <<cmd_q, sent, seq, stdin, line_q, events, taken, ui, child,
                   loop_pc, reader_pc>>
    /\ UNCHANGED <<reducerVars, decoderVars>>

\* the subprocess exits of its own accord
GdbExit ==
    /\ child = "alive"
    /\ child' = "exited"
    /\ UNCHANGED <<cmd_q, sent, seq, stdin, gdb_out, line_q, events, taken,
                   ui, loop_pc, reader_pc>>
    /\ UNCHANGED <<reducerVars, decoderVars>>

\* the reader thread: read_line returns a line; a non-empty one is sent on
\* the line channel, and the thread stops when that send fails
ReaderLine ==
    /\ reader_pc = "read"
    /\ gdb_out # <<>>
    /\ gdb_out' = Tail(gdb_out)
    /\ LET line == reader_line(Head(gdb_out))
       IN IF line = <<>> THEN UNCHANGED <<line_q, reader_pc>>
          ELSE IF loop_pc = "done"
          THEN reader_pc' = "done" /\ UNCHANGED line_q
          ELSE line_q' = forward(line_q, line) /\ UNCHANGED reader_pc
    /\ UNCHANGED <<cmd_q, sent, seq, stdin, events, taken, ui, child,
                   loop_pc>>
    /\ UNCHANGED <<reducerVars, decoderVars>>

\* the reader thread: read_line returns Ok(0) once the subprocess is gone
\* and its output is read
ReaderEof ==
    /\ reader_pc = "read"
    /\ gdb_out = <<>>
    /\ child # "alive"
    /\ reader_pc' = "done"
    /\ UNCHANGED <<cmd_q, sent, seq, stdin, gdb_out, line_q, events, taken,
                   ui, child, loop_pc>>
    /\ UNCHANGED <<reducerVars, decoderVars>>

\* a reader thread that reports a read error and reads on
ReaderErrorReadsOn ==
    /\ reader_pc = "read"
    /\ events' = deliver(events, Ui(GdbError(ERR_READ)))
    /\ UNCHANGED <<cmd_q, sent, seq, stdin, gdb_out, line_q, taken, ui,
                   child, loop_pc, reader_pc>>
    /\ UNCHANGED <<reducerVars, decoderVars>>

\* the reader thread: read_line returns an error
ReaderError ==
    /\ reader_pc = "read"
    /\ events' = deliver(events, Ui(GdbError(ERR_READ)))
    /\ reader_pc' = "done"
    /\ UNCHANGED <<cmd_q, sent, seq, stdin, gdb_out, line_q, taken, ui,
                   child, loop_pc>>
    /\ UNCHANGED <<reducerVars, decoderVars>>

\* the consumer drops the receiver of the event channel
UiDrop ==
    /\ ui = "open"
    /\ ui' = "dropped"
    /\ UNCHANGED <<cmd_q, sent, seq, stdin, gdb_out, line_q, events, taken,
                   child, loop_pc, reader_pc>>
    /\ UNCHANGED <<reducerVars, decoderVars>>

NextProc ==
    \/ \E executable \in Executables : SpawnOk(executable)
    \/ SpawnFail
    \/ \E cmd \in Cmds : SendCmd(cmd)
    \/ LoopCommand
    \/ LoopCommandsDone
    \/ LoopLine
    \/ LoopSleep
    \/ \E raw \in RawLines : GdbEmit(raw)
    \/ GdbExit
    \/ ReaderLine
    \/ ReaderEof
    \/ ReaderError
    \/ UiDrop

SpecProc == Init /\ [][NextProc]_vars

\* the supervisor with its threads scheduled: run_loop starts, the control
\* loop keeps taking its next step (its sleep is 10 ms), and the reader thread
\* reads what there is to read; the consumer and the subprocess owe nothing
Start == (\E executable \in Executables : SpawnOk(executable)) \/ SpawnFail

LoopStep == LoopCommand \/ LoopCommandsDone \/ LoopLine \/ LoopSleep

ReaderStep == ReaderLine \/ ReaderEof

SpecProcFair ==
    /\ SpecProc
    /\ WF_vars(Start)
    /\ WF_vars(LoopStep)
    /\ WF_vars(ReaderStep)

\* Only run_loop's own thread is scheduled fairly: the reader thread may
\* stay blocked in read_line forever.
SpecLoopFair ==
    /\ SpecProc
    /\ WF_vars(Start)
    /\ WF_vars(LoopStep)

\* ------------------------------------------------------------------------
\* The supervisor fed with the whole command vocabulary: the consumer sends
\* commands, the control loop encodes and writes them; the subprocess stays
\* silent.

FileMain == <<"m", "a", "i", "n", ".", "c">>

FileLib == <<"s", "r", "c", "/", "l", "i", "b", ".", "r", "s">>

TextInfo == <<"i", "n", "f", "o", " ", " ", "b", " ">>

TextPrint == <<"-", "e", "x", "e", "c", "-", "r", "u", "n", "\n", "1">>

ExprSum == <<"a", " ", "+", " ", "b">>

PathOut == <<".", "/", "a", ".", "o", "u", "t">>

\* the inbound command vocabulary
Vocabulary ==
    {Command_Run, Command_Continue, Command_Step, Command_Next,
     Command_Finish, Command_Interrupt, Command_Restart,
     Command_AddBreakpoint(FileMain, 43), Command_AddBreakpoint(FileLib, 1),
     Command_AddBreakpoint(FileMain, 100),
     Command_RemoveBreakpoint(0), Command_RemoveBreakpoint(12),
     Command_ToggleBreakpoint(3, TRUE), Command_ToggleBreakpoint(3, FALSE),
     Command_ToggleBreakpoint(20, FALSE),
     Command_LoadExecutable(PathOut), Command_RequestLocals,
     Command_RequestStack, Command_RequestRegisterNames,
     Command_RequestRegisters, Command_RequestDisasm,
     Command_Evaluate(ExprSum), Command_Evaluate(<<"x">>),
     Command_Raw(TextInfo), Command_Raw(TextPrint), Command_Raw(<<>>)}

NextWriter ==
    \/ \E executable \in Executables : SpawnOk(executable)
    \/ \E cmd \in Vocabulary : SendCmd(cmd)
    \/ LoopCommand
    \/ LoopCommandsDone
    \/ LoopSleep

SpecWriter == Init /\ [][NextWriter]_vars

\* ------------------------------------------------------------------------
\* A session in which the consumer loads an executable by command: the
\* supervisor with the commands LoadExecutable and Run and the lines the
\* subprocess answers them with.

SessionCmds == {Command_LoadExecutable(PathOut), Command_Run}

SessionLines == {LineDone \o <<"\n">>, LineRunning \o <<"\r", "\n">>}

NextSession ==
    \/ \E executable \in Executables : SpawnOk(executable)
    \/ SpawnFail
    \/ \E cmd \in SessionCmds : SendCmd(cmd)
    \/ LoopCommand
    \/ LoopCommandsDone
    \/ LoopLine
    \/ LoopSleep
    \/ \E raw \in SessionLines : GdbEmit(raw)
    \/ GdbExit
    \/ ReaderLine
    \/ ReaderEof
    \/ ReaderError
    \/ UiDrop

SpecSession == Init /\ [][NextSession]_vars

\* ------------------------------------------------------------------------
\* Properties of the reducer (specification Spec)

bpsOf(s) == s.persistent.breakpoints

\* DebuggerState::breakpoint_at: the first stored breakpoint at the file and
\* line, if there is one
breakpoint_at(s, file, line) ==
    LET hits == {i \in 1..Len(bpsOf(s)) :
                     bpsOf(s)[i].file = file /\ bpsOf(s)[i].line = line}
    IN IF hits = {} THEN None
       ELSE Some(bpsOf(s)[CHOOSE i \in hits : \A j \in hits : i <= j])

HasId(bps, id) == \E i \in 1..Len(bps) : bps[i].id = id

ProgramEventTypes ==
    {"ProgramLoaded", "ProgramStarted", "ProgramPaused", "ProgramExited"}

BreakpointEventTypes ==
    {"BreakpointAdded", "BreakpointRemoved", "BreakpointToggled"}

\* C1: after every event applied from DebuggerState::new(), pause is Some
\* if and only if program is Paused.
C1_PauseIffPaused == (state.pause # None) <=> (state.program = Paused)

\* C1 witness: a paused state with a pause was left by ProgramStarted, which
\* cleared the pause.
C1_Witness ==
    /\ last.type = "ProgramStarted"
    /\ prev.program = Paused
    /\ prev.pause # None
    /\ state.pause = None

\* C2 (the claim as stated): no two entries of persistent.breakpoints have
\* the same id.
C2_BreakpointIdsUnique ==
    \A i, j \in 1..Len(bpsOf(state)) :
        i # j => bpsOf(state)[i].id # bpsOf(state)[j].id

\* C3 (the claim as stated): once program is Exited, only ProgramLoaded
\* changes the phase; ProgramStarted and ProgramPaused leave it Exited.
C3_ExitedLeftOnlyByLoaded ==
    (prev.program.tag = "Exited" /\ last.type # "ProgramLoaded")
        => state.program.tag = "Exited"

\* C3 (amended): once program is Exited, the phase after an event is Loaded
\* after ProgramLoaded, Running after ProgramStarted, Paused after
\* ProgramPaused, and still Exited after every other event.
C3_ExitedLeftByProgramEvents ==
    prev.program.tag = "Exited" =>
        state.program.tag =
            CASE last.type = "ProgramLoaded" -> "ProgramLoaded"
              [] last.type = "ProgramStarted" -> "Running"
              [] last.type = "ProgramPaused" -> "Paused"
              [] OTHER -> "Exited"

\* C3 witness: ProgramStarted was applied to an Exited state.
C3_Witness ==
    /\ prev.program.tag = "Exited"
    /\ last.type = "ProgramStarted"
    /\ state.program = Running

\* the edges of the listed machine: the phase an event leads to from a
\* phase, or the phase itself when no edge is listed
ListedTarget(phase, type) ==
    CASE type = "ProgramLoaded" -> "ProgramLoaded"
      [] type = "ProgramStarted" /\ phase \in {"ProgramLoaded", "Paused"} ->
           "Running"
      [] type = "ProgramPaused" /\ phase \in {"Running", "Paused"} -> "Paused"
      [] type = "ProgramExited" /\ phase = "Paused" -> "Exited"
      [] OTHER -> phase

\* C4 (the claim as stated): every phase change follows an edge of the
\* listed machine, and an event with no listed edge from the current phase
\* does not change the phase.
C4_FollowsListedMachine ==
    last.type # "none" =>
        state.program.tag = ListedTarget(prev.program.tag, last.type)

\* C4 (amended): the phase after an event depends on the event alone:
\* Loaded is entered only by ProgramLoaded, Running only by ProgramStarted,
\* Paused only by ProgramPaused and Exited only by ProgramExited, each from
\* any phase; every other event leaves the program value unchanged.
C4_PhaseSetByEventAlone ==
    last.type # "none" =>
        CASE last.type = "ProgramLoaded" -> state.program = ProgramLoadedState
          [] last.type = "ProgramStarted" -> state.program = Running
          [] last.type = "ProgramPaused" -> state.program = Paused
          [] last.type = "ProgramExited" -> state.program = Exited(last.code)
          [] OTHER -> state.program = prev.program

\* C4 witness: ProgramPaused was applied with no program loaded, an event
\* with no listed edge from that phase, and the phase became Paused.
C4_Witness ==
    /\ prev.program = NoProgramLoaded
    /\ last.type = "ProgramPaused"
    /\ state.program = Paused

\* C5: ProgramLoaded, ProgramStarted and ProgramExited leave pause = None
\* and locals empty; ProgramPaused{p} leaves pause = Some(p), whatever the
\* pause was.
C5_PauseAndLocalsAfterProgramEvent ==
    /\ last.type \in {"ProgramLoaded", "ProgramStarted", "ProgramExited"}
           => (state.pause = None /\ state.locals = <<>>)
    /\ last.type = "ProgramPaused" => state.pause = Some(last.pause)

\* C5 witness: ProgramPaused{p} was applied to a state paused at another
\* pause, and replaced it.
C5_Witness ==
    /\ last.type = "ProgramPaused"
    /\ prev.pause # None
    /\ prev.pause # Some(last.pause)
    /\ state.pause = Some(last.pause)

\* C6: BreakpointAdded, BreakpointRemoved and BreakpointToggled leave
\* program, pause, locals and persistent.executable unchanged.
C6_BreakpointEventsFrame ==
    last.type \in BreakpointEventTypes =>
        /\ state.program = prev.program
        /\ state.pause = prev.pause
        /\ state.locals = prev.locals
        /\ state.persistent.executable = prev.persistent.executable

\* C6 witness: BreakpointAdded changed the breakpoint list of a paused state
\* with locals and an executable.
C6_Witness ==
    /\ last.type = "BreakpointAdded"
    /\ bpsOf(state) # bpsOf(prev)
    /\ state.pause # None
    /\ state.locals # <<>>
    /\ state.persistent.executable # None

\* the lines `=breakpoint-deleted,id="n"` fed to the parser, with and without
\* a response token
DeletedLines(n) == {LineDeleted(n), WithToken(7, LineDeleted(n))}

\* the entries of a breakpoint list whose id differs from n, in their order
OthersInOrder(bps, n) == SelectSeq(bps, LAMBDA b : b.id # n)

\* C7: the line `=breakpoint-deleted,id="N"` decodes to BreakpointRemoved{N};
\* applying it leaves no breakpoint with id N, leaves the breakpoints with
\* another id present, unmodified and in the same order, changes nothing
\* else, and leaves the state unchanged when no breakpoint has id N.
C7_DeletedLineRemovesById ==
    \A n \in DeletedIds :
        (lastLine # None /\ lastLine[1] \in DeletedLines(n)) =>
            /\ last = BreakpointRemoved(n)
            /\ ~HasId(bpsOf(state), n)
            /\ bpsOf(state) = OthersInOrder(bpsOf(prev), n)
            /\ state.program = prev.program
            /\ state.pause = prev.pause
            /\ state.locals = prev.locals
            /\ state.persistent.executable = prev.persistent.executable
            /\ ~HasId(bpsOf(prev), n) => state = prev

\* C7 witness: `=breakpoint-deleted,id="1"` was applied to a list holding
\* breakpoints 1 and 2, and breakpoint 2 alone remains.
C7_Witness ==
    /\ lastLine = Some(LineDeleted(1))
    /\ Len(bpsOf(prev)) = 2
    /\ bpsOf(prev)[1].id = 1
    /\ bpsOf(prev)[2].id = 2
    /\ bpsOf(state) = <<bpsOf(prev)[2]>>

\* C8: BreakpointToggled{id, enabled} with no breakpoint of that id leaves
\* the whole state unchanged; otherwise the list keeps its length and
\* order, every entry keeps its id, file and line, every entry with another
\* id is unchanged, the first entry with the id has the given flag, and
\* nothing outside the list changes.
C8_ToggleFrame ==
    last.type = "BreakpointToggled" =>
        LET old == bpsOf(prev)
            cur == bpsOf(state)
        IN /\ ~HasId(old, last.id) => state = prev
           /\ state = [prev EXCEPT !.persistent.breakpoints = cur]
           /\ Len(cur) = Len(old)
           /\ \A i \in 1..Len(old) :
                  /\ cur[i] = [old[i] EXCEPT !.enabled = cur[i].enabled]
                  /\ old[i].id # last.id => cur[i] = old[i]
                  /\ (old[i].id = last.id
                      /\ \A j \in 1..(i - 1) : old[j].id # last.id)
                         => cur[i].enabled = last.enabled

\* C8 witness: a toggle changed the flag of the second of two breakpoints.
C8_Witness ==
    /\ last.type = "BreakpointToggled"
    /\ Len(bpsOf(prev)) = 2
    /\ bpsOf(prev)[1].id # last.id
    /\ bpsOf(prev)[2].id = last.id
    /\ bpsOf(state)[2].enabled # bpsOf(prev)[2].enabled

\* C9: ProgramLoaded, ProgramStarted, ProgramPaused, ProgramExited and
\* LocalsUpdated leave persistent.breakpoints unchanged, and only
\* ProgramLoaded changes persistent.executable.
C9_PersistentSurvives ==
    /\ last.type \in ProgramEventTypes \cup {"LocalsUpdated"}
           => bpsOf(state) = bpsOf(prev)
    /\ (last.type # "ProgramLoaded" /\ last.type # "none")
           => state.persistent.executable = prev.persistent.executable

\* C9 witness: a paused program with an executable and breakpoints exited.
C9_Witness ==
    /\ last.type = "ProgramExited"
    /\ prev.program = Paused
    /\ bpsOf(state) # <<>>
    /\ state.persistent.executable # None

\* ------------------------------------------------------------------------
\* Properties of the supervisor (specification SpecProc)

\* C10: the write path numbers commands from 1: the k-th line written to
\* the subprocess is the decimal token k, then the encoding of the k-th
\* command sent on the command channel, then a newline; the counter is one
\* more than the number of lines written, so no token is skipped or reused.
C10_WritePathNumbered ==
    /\ Len(stdin) <= Len(sent)
    /\ seq = Len(stdin) + 1
    /\ \A k \in 1..Len(stdin) :
           /\ stdin[k] = to_decimal(k) \o command_to_mi(sent[k]) \o <<"\n">>
           /\ parse_u32(Upto(stdin[k], first_non_digit(stdin[k])[1]))
                  = Some(k)

\* C10 witness: two different commands were written, the second one with
\* token 2.
C10_Witness ==
    /\ Len(stdin) = 2
    /\ sent[1] # sent[2]
    /\ stdin[2] = <<"2">> \o command_to_mi(sent[2]) \o <<"\n">>

\* a is a prefix of b
IsPrefix(a, b) == Len(a) <= Len(b) /\ SubSeq(b, 1, Len(a)) = a

\* the lines the reader makes of what is still unread, the empty ones left out
Forwardable(outs) ==
    SelectSeq([i \in 1..Len(outs) |-> reader_line(outs[i])],
              LAMBDA line : line # <<>>)

RECURSIVE EventsOfLines(_)
\* what the control loop sends for a sequence of lines: for each line its
\* echo, then its event when it has one
EventsOfLines(lines) ==
    IF lines = <<>> THEN <<>>
    ELSE <<Ui(ConsoleOutput(Head(lines)))>> \o decoded(Head(lines))
         \o EventsOfLines(Tail(lines))

\* the events that do not come from a line: ProgramLoaded of the start-up,
\* the echo of a command, the errors of the supervisor
IsSupervisorEvent(ev) ==
    IF ev.kind = "State" THEN ev.ev.type = "ProgramLoaded"
    ELSE IF ev.ev.type = "GdbError"
    THEN ev.ev.msg \in {ERR_SPAWN, ERR_READ, ERR_WRITE}
    ELSE IsPrefix(ECHO_PREFIX, ev.ev.text)

\* the events on the event channel that come from lines, in their order
LineEvents(evs) == SelectSeq(evs, LAMBDA ev : ~IsSupervisorEvent(ev))

\* C11: lines travel in the order the subprocess emitted them: what the
\* subprocess emits joins the end of the unread output, the lines forwarded
\* and taken after a step continue, in emission order, those forwarded and
\* taken before it, and the events sent for lines are, in order, the echo
\* and the event of each line taken (a prefix of them once the consumer is
\* gone).
C11_LinesAndEventsInOrder ==
    [][/\ \/ IsPrefix(Forwardable(gdb_out), Forwardable(gdb_out'))
          \/ Forwardable(gdb_out') = Tail(Forwardable(gdb_out))
       /\ IsPrefix(taken, taken')
       /\ IsPrefix(taken \o line_q, taken' \o line_q')
       /\ IsPrefix(taken' \o line_q',
                   taken \o line_q \o Forwardable(gdb_out))
       /\ IsPrefix(LineEvents(events'), EventsOfLines(taken'))
       /\ ui' = "open" => LineEvents(events') = EventsOfLines(taken')]_vars

\* C11 witness: the subprocess emitted `*running` and then the prompt; both
\* were taken in that order and the consumer received the echo and the
\* event of the first line before the echo of the second.
C11_Witness ==
    /\ taken = <<LineRunning, PROMPT>>
    /\ LineEvents(events) =
           <<Ui(ConsoleOutput(LineRunning)), State(ProgramStarted),
             Ui(ConsoleOutput(PROMPT))>>

\* C12: a cycle of the control loop is the command phase followed by the
\* line phase.  A line is taken in the line phase only; the line phase is
\* entered from the command phase only, and only when the command channel
\* is empty and every command sent so far has been written, so the
\* commands queued when the cycle started are written before the cycle
\* takes a line.
C12_CommandsBeforeLines ==
    [][/\ taken' # taken => loop_pc = "lines"
       /\ (loop_pc # "lines" /\ loop_pc' = "lines") =>
              /\ loop_pc = "cmds"
              /\ cmd_q = <<>>
              /\ Len(stdin) = Len(sent)
              /\ \A k \in 1..Len(sent) :
                     IsPrefix(to_decimal(k) \o command_to_mi(sent[k]),
                              stdin[k])]_vars

\* C12 witness: a command and a line were both waiting; the consumer saw
\* the echo of the command, written with token 1, before the echo of the
\* line.
C12_Witness ==
    /\ Len(stdin) = 1
    /\ taken = <<LineRunning>>
    /\ Len(events) >= 2
    /\ events[1] = Ui(ConsoleOutput(ECHO_PREFIX \o command_to_mi(sent[1])))
    /\ events[2] = Ui(ConsoleOutput(LineRunning))

\* C13: when the control loop takes a line it is the head of the line
\* channel, and the consumer is sent ConsoleOutput of exactly that line,
\* whether or not it parses, followed at once by the event of the line when
\* it has one; nothing is delivered once the consumer is gone.
C13_EchoThenEvent ==
    [][taken' # taken =>
           /\ line_q # <<>>
           /\ taken' = Append(taken, Head(line_q))
           /\ events' = IF ui = "open"
                        THEN events
                             \o <<Ui(ConsoleOutput(Head(line_q)))>>
                             \o decoded(Head(line_q))
                        ELSE events]_vars

\* C13 witness: the prompt, which parses to no event, was echoed, and the
\* `*running` line taken after it was echoed and followed by its event.
C13_Witness ==
    /\ taken = <<PROMPT, LineRunning>>
    /\ Len(events) >= 3
    /\ SubSeq(events, Len(events) - 2, Len(events)) =
           <<Ui(ConsoleOutput(PROMPT)), Ui(ConsoleOutput(LineRunning)),
             State(ProgramStarted)>>

\* C14 (the claim as stated): once the consumer has dropped the receiver of
\* the event channel, a running control loop eventually kills the
\* subprocess and stops, whatever the subprocess emits.
C14_DropStopsLoop ==
    (ui = "dropped" /\ loop_pc \in {"cmds", "lines"})
        ~> (loop_pc = "done" /\ child = "killed")

\* the number of events of a sequence that are GdbError with the message
CountErrors(evs, msg) ==
    Cardinality({i \in 1..Len(evs) : evs[i] = Ui(GdbError(msg))})

\* C15: the step in which a write fails (the only way from the command
\* phase to the end of run_loop) writes nothing, kills the subprocess, and
\* sends the consumer, if there still is one, the echo of the command and
\* one GdbError; after run_loop has ended no command is written, no line is
\* taken from the line channel, and no second write error is reported.
C15_WriteFailureStops ==
    [][/\ (loop_pc = "cmds" /\ loop_pc' = "done") =>
              /\ cmd_q # <<>>
              /\ child # "alive"
              /\ child' = "killed"
              /\ stdin' = stdin
              /\ taken' = taken
              /\ events' =
                     IF ui = "open"
                     THEN events
                          \o <<Ui(ConsoleOutput(
                                    ECHO_PREFIX \o command_to_mi(Head(cmd_q)))),
                               Ui(GdbError(ERR_WRITE))>>
                     ELSE events
       /\ loop_pc = "done" =>
              /\ loop_pc' = "done"
              /\ stdin' = stdin
              /\ seq' = seq
              /\ cmd_q' = cmd_q
              /\ line_q' = line_q
              /\ taken' = taken
              /\ CountErrors(events', ERR_WRITE) = CountErrors(events, ERR_WRITE)
       /\ CountErrors(events', ERR_WRITE) <= 1]_vars

\* C15 witness: the first write failed with a second command and a line
\* still waiting; the consumer's last event is the GdbError and both are
\* left where they were.
C15_Witness ==
    /\ loop_pc = "done"
    /\ child = "killed"
    /\ stdin = <<>>
    /\ Len(sent) = 2
    /\ Len(cmd_q) = 1
    /\ line_q # <<>>
    /\ events # <<>>
    /\ events[Len(events)] = Ui(GdbError(ERR_WRITE))

\* C16: the step in which the spawn fails (run_loop ends with no subprocess)
\* sends the consumer, if there is one, exactly one GdbError and nothing
\* else; from then on there is no subprocess, no reader thread, no written
\* command, no further event and no new start.
C16_SpawnFailureIsFinal ==
    [][/\ (loop_pc = "idle" /\ loop_pc' = "done") =>
              /\ child' = "none"
              /\ reader_pc' = "idle"
              /\ stdin' = <<>>
              /\ events' = IF ui = "open" THEN <<Ui(GdbError(ERR_SPAWN))>>
                           ELSE <<>>
       /\ (loop_pc = "done" /\ child = "none") =>
              /\ loop_pc' = "done"
              /\ child' = "none"
              /\ reader_pc' = "idle"
              /\ stdin' = <<>>
              /\ events' = events
              /\ cmd_q' = cmd_q]_vars

\* C16 witness: the spawn failed after the consumer had sent a command; the
\* consumer holds the one GdbError and the command stays unwritten.
C16_Witness ==
    /\ loop_pc = "done"
    /\ child = "none"
    /\ reader_pc = "idle"
    /\ events = <<Ui(GdbError(ERR_SPAWN))>>
    /\ cmd_q # <<>>
    /\ stdin = <<>>

\* C17: the reader's end-of-stream step sends no event and its read-error
\* step sends the consumer, if there is one, exactly one GdbError; both end
\* the reader, and a reader that has ended stays ended, reads nothing more,
\* forwards no line and reports no further error.
C17_ReaderStops ==
    [][/\ ReaderEof => (events' = events /\ reader_pc' = "done")
       /\ ReaderError =>
              /\ reader_pc' = "done"
              /\ line_q' = line_q
              /\ events' = IF ui = "open"
                           THEN Append(events, Ui(GdbError(ERR_READ)))
                           ELSE events
       /\ reader_pc = "done" =>
              /\ reader_pc' = "done"
              /\ IsPrefix(gdb_out, gdb_out')
              /\ Len(line_q') <= Len(line_q)
              /\ CountErrors(events', ERR_READ) = CountErrors(events, ERR_READ)
       /\ CountErrors(events', ERR_READ) <= 1]_vars

\* C17 witness: a read error ended the reader with a line still unread; the
\* consumer holds the one GdbError and the line was never forwarded.
C17_Witness ==
    /\ reader_pc = "done"
    /\ ui = "open"
    /\ CountErrors(events, ERR_READ) = 1
    /\ Forwardable(gdb_out) # <<>>
    /\ line_q = <<>>
    /\ taken = <<>>

\* C18 (the claim as stated): once the subprocess has exited, the reader
\* has stopped at end-of-stream and the forwarded lines are drained, no
\* further event is delivered to the consumer.
C18_NoEventAfterExit ==
    [][(/\ child = "exited"
        /\ reader_pc = "done"
        /\ gdb_out = <<>>
        /\ line_q = <<>>) => events' = events]_vars

\* C19: command dispatch does not depend on subprocess output.  With only
\* the control loop scheduled fairly (the reader may wait for a line
\* forever), the k-th command sent on the command channel is eventually
\* written to the subprocess, unless the control loop has stopped.
C19_CommandsEventuallyWritten ==
    \A k \in 1..MaxCmds :
        (Len(sent) >= k) ~> (Len(stdin) >= k \/ loop_pc = "done")

\* C19 witness: every sent command is written while the reader is still
\* waiting for the first line of a subprocess that has printed nothing.
C19_Witness ==
    /\ child = "alive"
    /\ reader_pc = "read"
    /\ gdb_out = <<>> /\ line_q = <<>> /\ taken = <<>>
    /\ Len(sent) >= 2
    /\ Len(stdin) = Len(sent)
    /\ loop_pc \in {"cmds", "lines"}

\* the line without its leading run of ASCII digits
RECURSIVE without_leading_digits(_)
without_leading_digits(s) ==
    IF s # <<>> /\ is_ascii_digit(s[1])
    THEN without_leading_digits(Tail(s))
    ELSE s

Sigils == {"~", "@", "&", "*", "=", "^"}

starts_with_sigil(s) == s # <<>> /\ s[1] \in Sigils

\* strip_token is idempotent, and a digit string in front of a line that
\* starts with a record sigil does not change what parse_line returns
IdempotentAndTokenBlind ==
    /\ Len(stripped) >= 2 => stripped[2] = stripped[1]
    /\ (parsed # <<>> /\ starts_with_sigil(in_record)) =>
           parsed[1] = parse_line(in_record)

\* C20 (the claim as stated): token stripping removes the leading run of
\* ASCII digits of every line and is idempotent, and parse_line(T ++ L)
\* is parse_line(L) for every L that starts with a record sigil.
C20_StripRemovesEveryDigitRun ==
    /\ stripped # <<>> =>
           stripped[1] = without_leading_digits(in_token \o in_record)
    /\ IdempotentAndTokenBlind

\* C20 (amended): token stripping removes the leading run of ASCII digits
\* of a line that has a character other than a digit and returns a line
\* made of digits only unchanged; it is idempotent, and parse_line(T ++ L)
\* is parse_line(L) for every L that starts with a record sigil.
C20_StripTokenBeforeRecord ==
    /\ stripped # <<>> =>
           stripped[1] = IF without_leading_digits(in_token \o in_record) = <<>>
                         THEN in_token \o in_record
                         ELSE without_leading_digits(in_token \o in_record)
    /\ IdempotentAndTokenBlind

\* C20 witness: a result record behind a two-digit token was stripped
\* twice and decoded to an event.
C20_Witness ==
    /\ Len(in_token) = 2
    /\ starts_with_sigil(in_record)
    /\ Len(stripped) = 2
    /\ stripped[1] = in_record
    /\ parsed # <<>>
    /\ parsed[1] # None

\* C21: parse_line yields no event for the prompt line `(gdb)` and for the
\* empty line.
C21_PromptAndEmptyYieldNothing ==
    (parsed # <<>> /\ (in_token \o in_record) \in {PROMPT, <<>>}) =>
        parsed[1] = None

\* C21 witness: parse_line was called on the prompt line and returned
\* no event.
C21_Witness ==
    /\ in_token = <<>>
    /\ in_record = PROMPT
    /\ parsed = <<None>>

\* C22: a record of class `running` with sigil `*` or `^` decodes to
\* ProgramStarted, and a `^exit` record to ProgramExited with no code,
\* whatever fields follow the class (including none).
C22_RunningAndExitIgnoreFields ==
    parsed # <<>> =>
        \A tail \in FieldTails :
            /\ in_record \in {<<"*">> \o ClassRunning \o tail,
                              <<"^">> \o ClassRunning \o tail} =>
                   parsed[1] = Some(State(ProgramStarted))
            /\ in_record = <<"^">> \o ClassExit \o tail =>
                   parsed[1] = Some(State(ProgramExited(None)))

\* C22 witness: `*running,thread-id="all"` was decoded to ProgramStarted.
C22_Witness ==
    /\ in_record = <<"*">> \o ClassRunning \o TailThreadAll
    /\ parsed = <<Some(State(ProgramStarted))>>

\* C23: a `^error` record decodes to GdbError carrying the unescaped value
\* of its `msg` field, and to GdbError with the fixed default message when
\* there is no `msg` field; it never yields no event.
C23_ErrorRecordAlwaysReported ==
    parsed # <<>> =>
        /\ \A c \in ErrorCases :
               in_record = <<"^">> \o ClassError \o c[1] =>
                   parsed[1] = Some(Ui(GdbError(c[2])))
        /\ \A tail \in ErrorTailsNoMsg :
               in_record = <<"^">> \o ClassError \o tail =>
                   parsed[1] = Some(Ui(GdbError(DEFAULT_ERROR)))
        /\ in_record \in ErrorRecords => parsed[1] # None

\* C23 witness: `^error` without fields was decoded to the default message.
C23_Witness ==
    /\ in_record = <<"^">> \o ClassError
    /\ parsed = <<Some(Ui(GdbError(DEFAULT_ERROR)))>>

\* C24: a `~` stream line whose payload is a quoted string decodes to
\* ConsoleOutput of the unescaped interior of the quotes, and an `@` line
\* to ConsoleOutput of "[target] " followed by that interior; decoding the
\* escaped form of any text over the supported characters returns the text.
C24_StreamRoundTrip ==
    (parsed # <<>> /\ in_record # <<>> /\ in_record[1] \in {"~", "@"}) =>
        \A c \in StreamCases :
            in_record = c[1] =>
                parsed[1] = Some(Ui(ConsoleOutput(
                                IF c[2] = "~" THEN c[3]
                                ELSE TARGET_PREFIX \o c[3])))

\* C24 witness: a `~` record whose text is a quote, a backslash and a
\* newline was decoded back to that text.
C24_Witness ==
    /\ in_record = stream_record("~", <<"\"", "\\", "\n">>)
    /\ parsed = <<Some(Ui(ConsoleOutput(<<"\"", "\\", "\n">>)))>>

\* C25: a `*stopped` record with a frame block decodes to ProgramPaused
\* whose thread_id is the numeric `thread-id` field, whose stop_reason is
\* decoded from `reason`, and whose frame has addr parsed as hexadecimal
\* from `addr`, function from `func`, line from `line`, and file taken from
\* `fullname` when present and from `file` otherwise.
C25_StoppedRecordDecodesFrame ==
    (parsed # <<>> /\ in_record \in StoppedRecords) =>
        \A c \in FrameCases :
            in_record = c[1] => parsed[1] = Some(State(ProgramPaused(c[2])))

\* C25 witness: the record with reason breakpoint-hit 3, thread-id 2 before
\* the frame, addr 0x4005f6, both file and fullname was decoded.
C25_Witness ==
    /\ in_record = stopped_case(<<ReasonHit3, BreakpointHit(3)>>,
                                <<Thread2, 2>>, <<AddrHex, 4195830>>,
                                <<FileBoth, Some(TextFullname)>>, TRUE)[1]
    /\ parsed # <<>>
    /\ parsed[1] # None
    /\ parsed[1][1].ev.pause.frame.file = Some(TextFullname)
    /\ parsed[1][1].ev.pause.frame.addr = 4195830
    /\ parsed[1][1].ev.pause.thread_id = 2

\* C26: a `*stopped` record with no parseable `frame={...}` block yields no
\* event at all, whatever its reason, so applying the line stream leaves
\* the debugger state unchanged for that record.
C26_StopWithoutFrameIsDropped ==
    (lastLine # None /\ lastLine[1] \in NoFrameLines) =>
        /\ decoded(lastLine[1]) = None
        /\ last = NoEvent
        /\ state = prev

\* C26 witness: a breakpoint-hit stop without a frame arrived while the
\* program was running, and the state still says Running with no pause.
C26_Witness ==
    /\ lastLine = Some(LineStoppedHitNoFrame)
    /\ state.program = Running
    /\ state.pause = None
    /\ state = prev

\* C27: stop-reason decoding is total: `breakpoint-hit` gives
\* BreakpointHit(bkptno), `end-stepping-range` or `step-over-range` gives
\* EndStepping, `signal-received` gives Signal(signal-name), every other or
\* missing reason gives Unknown; a missing or malformed `bkptno` or
\* `signal-name` never prevents the ProgramPaused event.
C27_StopReasonTotal ==
    (parsed # <<>> /\ in_record \in ReasonRecords) =>
        /\ parsed[1] # None
        /\ parsed[1][1].kind = "State"
        /\ parsed[1][1].ev.type = "ProgramPaused"
        /\ \A c \in ReasonCases :
               in_record = c[1] =>
                   parsed[1] = Some(State(ProgramPaused(c[2])))

\* C27 witness: a breakpoint-hit stop whose bkptno is not a number was
\* decoded to a pause with BreakpointHit(0).
C27_Witness ==
    /\ in_record = stopped_case(<<ReasonHitBadNumber, BreakpointHit(0)>>,
                                <<Thread2, 2>>, <<AddrHex, 4195830>>,
                                <<FileBoth, Some(TextFullname)>>, FALSE)[1]
    /\ parsed # <<>>
    /\ parsed[1] # None
    /\ parsed[1][1].ev.pause.stop_reason = BreakpointHit(0)

C29_QuotedValuesAreOpaque ==
    (parsed # <<>> /\ in_record \in NoiseRecords) =>
        \A c \in NoiseCases : in_record = c[1] => parsed[1] = c[2]

\* The same for every value but the one that holds `frame={` in front of
\* the frame block.
QuotedDelimitersAreOpaque ==
    (parsed # <<>> /\ in_record \in NoiseRecords
        /\ in_record # reason_case(<<WrittenFrameKey, WrittenFrameKey>>)[1]) =>
        \A c \in NoiseCases : in_record = c[1] => parsed[1] = c[2]

\* C30 (the claim as stated): the three block lists (`variables`,
\* `register-values`, `asm_insns`) are decoded by the same rule: one record
\* per top-level `{...}` block in order when the list text contains `{`,
\* the whole text as a single record when it contains none.
C30_BlockListsDecodedAlike ==
    (parsed # <<>> /\ in_record \in ListRecords) =>
        \A c \in BlockListCases \cup BareListCases :
            in_record = c[1] => parsed[1] = c[2]

\* The rule as the three decoders share it: one record per block for all
\* three, and the whole text as one record for `variables`.
BlockListsAndBareVariables ==
    (parsed # <<>> /\ in_record \in ListRecords) =>
        /\ \A c \in BlockListCases \cup BareVariableCases :
               in_record = c[1] => parsed[1] = c[2]
        /\ in_record \in {RegsBareInBraces, RegsBareInBrackets,
                          AsmBareInBraces, AsmBareInBrackets} =>
               parsed[1] = None

\* C31 (the claim as stated): a missing or malformed field inside a
\* breakpoint, frame, variable, register or disassembly line is replaced by
\* its default (empty string or zero) and the record is still produced, a
\* breakpoint block without `file` and `fullname` included; only a variable
\* with an empty name is left out.
C31_FieldDefaultsKeepRecord ==
    (parsed # <<>> /\ in_record \in DefaultRecords) =>
        \A c \in NoFileCases \cup DefaultedCases :
            in_record = c[1] => parsed[1] = c[2]

\* Every field but the file of a breakpoint has a default: the record is
\* produced with zero or the empty string in the place of the field.
DefaultsButBreakpointFile ==
    (parsed # <<>> /\ in_record \in DefaultRecords) =>
        /\ \A c \in DefaultedCases : in_record = c[1] => parsed[1] = c[2]
        /\ \A c \in NoFileCases : in_record = c[1] => parsed[1] = None

\* ------------------------------------------------------------------------
\* Properties of the command encoding (specification SpecWriter)

\* the k-th line written to the subprocess without its token and its
\* newline
written_mi(k) == SubSeq(stdin[k], Len(to_decimal(k)) + 1, Len(stdin[k]) - 1)

\* the execution controls, each with the command the claim names
ControlCases ==
    {<<Command_Run, <<"-", "e", "x", "e", "c", "-", "r", "u", "n">>>>,
     <<Command_Continue, <<"-", "e", "x", "e", "c", "-", "c", "o", "n", "t",
         "i", "n", "u", "e">>>>,
     <<Command_Step, <<"-", "e", "x", "e", "c", "-", "s", "t", "e", "p">>>>,
     <<Command_Next, <<"-", "e", "x", "e", "c", "-", "n", "e", "x", "t">>>>,
     <<Command_Finish, <<"-", "e", "x", "e", "c", "-", "f", "i", "n", "i",
         "s", "h">>>>,
     <<Command_Interrupt, <<"-", "e", "x", "e", "c", "-", "i", "n", "t", "e",
         "r", "r", "u", "p", "t">>>>,
     <<Command_Restart, <<"-", "e", "x", "e", "c", "-", "r", "u", "n">>>>}

\* C32: command_to_mi maps Run, Continue, Step, Next, Finish and Interrupt
\* to -exec-run, -exec-continue, -exec-step, -exec-next, -exec-finish and
\* -exec-interrupt, Restart to the same string as Run, and Raw(text) to
\* exactly text: every command written to the subprocess is that string
\* between its token and its newline.
C32_ControlsAndRawEncoding ==
    \A k \in 1..Len(stdin) :
        /\ \A c \in ControlCases : sent[k] = c[1] => written_mi(k) = c[2]
        /\ sent[k].tag = "Raw" => written_mi(k) = sent[k].s

\* C32 witness: a Restart and a Raw command holding a newline were written,
\* one after the other.
C32_Witness ==
    /\ Len(stdin) = 2
    /\ sent[1] = Command_Restart
    /\ sent[2] = Command_Raw(TextPrint)

\* the breakpoint commands, each with the command the claim names
BreakpointCases ==
    {<<Command_AddBreakpoint(FileMain, 43), <<"-", "b", "r", "e", "a", "k",
        "-", "i", "n", "s", "e", "r", "t", " ", "m", "a", "i", "n", ".", "c",
        ":", "4", "3">>>>,
     <<Command_AddBreakpoint(FileLib, 1), <<"-", "b", "r", "e", "a", "k", "-",
         "i", "n", "s", "e", "r", "t", " ", "s", "r", "c", "/", "l", "i", "b",
         ".", "r", "s", ":", "1">>>>,
     <<Command_AddBreakpoint(FileMain, 100), <<"-", "b", "r", "e", "a", "k",
         "-", "i", "n", "s", "e", "r", "t", " ", "m", "a", "i", "n", ".", "c",
         ":", "1", "0", "0">>>>,
     <<Command_RemoveBreakpoint(0), <<"-", "b", "r", "e", "a", "k", "-", "d",
         "e", "l", "e", "t", "e", " ", "0">>>>,
     <<Command_RemoveBreakpoint(12), <<"-", "b", "r", "e", "a", "k", "-", "d",
         "e", "l", "e", "t", "e", " ", "1", "2">>>>,
     <<Command_ToggleBreakpoint(3, TRUE), <<"-", "b", "r", "e", "a", "k", "-",
         "e", "n", "a", "b", "l", "e", " ", "3">>>>,
     <<Command_ToggleBreakpoint(3, FALSE), <<"-", "b", "r", "e", "a", "k",
         "-", "d", "i", "s", "a", "b", "l", "e", " ", "3">>>>,
     <<Command_ToggleBreakpoint(20, FALSE), <<"-", "b", "r", "e", "a", "k",
         "-", "d", "i", "s", "a", "b", "l", "e", " ", "2", "0">>>>}

BreakpointTags == {"AddBreakpoint", "RemoveBreakpoint", "ToggleBreakpoint"}

VocabularyTags ==
    {"Run", "Continue", "Step", "Next", "Finish", "Interrupt", "Restart",
     "AddBreakpoint", "RemoveBreakpoint", "ToggleBreakpoint",
     "LoadExecutable", "RequestLocals", "RequestStack",
     "RequestRegisterNames", "RequestRegisters", "RequestDisasm",
     "Evaluate", "Raw"}

C35_ReadErrorAfterForwardedLines ==
    [][CountErrors(events', ERR_READ) > CountErrors(events, ERR_READ)
           => line_q = <<>>]_vars

\* C36 (the claim as stated): after a `=breakpoint-modified` notification
\* for an id that is already stored, here breakpoint 1 at a.c:10 reported
\* with enabled="n", the state holds one breakpoint with that id, its
\* enabled flag is the notified one, and breakpoint_at for its file and line
\* returns the updated breakpoint.
C36_ModifiedUpdatesStored ==
    (lastLine = Some(LineModified1)
        /\ \E i \in 1..Len(bpsOf(prev)) : bpsOf(prev)[i].id = 1) =>
        /\ Cardinality({i \in 1..Len(bpsOf(state)) : bpsOf(state)[i].id = 1})
               = 1
        /\ \A i \in 1..Len(bpsOf(state)) :
               bpsOf(state)[i].id = 1 => ~bpsOf(state)[i].enabled
        /\ breakpoint_at(state, <<"a", ".", "c">>, 10)
               = Some([id |-> 1, file |-> <<"a", ".", "c">>, line |-> 10,
                       enabled |-> FALSE])

\* C37 (the claim as stated): locals are a snapshot of the latest reply:
\* when the program is stopped and the reply to the locals query arrives,
\* state.locals equals the variables listed in that reply, also when the
\* reply lists none.
C37_LocalsAreLatestReply ==
    prev.program = Paused =>
        /\ lastLine = Some(LineLocals) =>
               state.locals
                   = <<[name |-> <<"x">>, value |-> <<"1">>,
                        type_ |-> <<"i", "n", "t">>]>>
        /\ lastLine = Some(LineNoLocals) => state.locals = <<>>

\* C38 (the claim as stated): the scalar extracted for key K is the value
\* of the field whose key is exactly K, also when a field whose key ends in
\* K (`thread-id` for `id`, `signal-name` for `name`) stands in front of it.
C38_ExactKeyExtracted ==
    (parsed # <<>> /\ in_record \in SuffixRecords) =>
        \A c \in SuffixFirstCases \cup ExactFirstCases :
            in_record = c[1] => parsed[1] = c[2]

\* C39 (the claim as stated): after every sequence of StateEvents applied
\* from the initial state, locals is empty whenever the phase is not Paused.
C39_LocalsOnlyWhilePaused ==
    state.program.tag # "Paused" => state.locals = <<>>

\* ------------------------------------------------------------------------
\* Properties of a session with LoadExecutable (specification SpecSession)

\* the places of the ProgramLoaded events among the delivered events
LoadedAt(evs) ==
    {i \in 1..Len(evs) :
         evs[i].kind = "State" /\ evs[i].ev.type = "ProgramLoaded"}

\* C40: ProgramLoaded is sent at most once in a session, by the step that
\* spawns the subprocess with an executable argument, and is then the first
\* event the consumer receives; no line of the subprocess and no command,
\* LoadExecutable included, produces another one.
C40_LoadedOnlyAtStartup ==
    [][LoadedAt(events') # LoadedAt(events) =>
           /\ loop_pc = "idle" /\ loop_pc' = "cmds" /\ child' = "alive"
           /\ events = <<>>
           /\ events' = <<State(ProgramLoaded(ExeA))>>]_vars

\* C40 witness: the session started with an executable, a LoadExecutable
\* command was written and the reply of the subprocess was taken; the
\* consumer holds one ProgramLoaded, the first of its events.
C40_Witness ==
    /\ LoadedAt(events) = {1}
    /\ Len(stdin) >= 1
    /\ sent[1] = Command_LoadExecutable(PathOut)
    /\ taken # <<>>
    /\ taken[1] = LineDone
    /\ Len(events) >= 4

====
